---- MODULE Spec2Model ----
(***************************************************************************)
(* Model of youtube-transcript-ts: the YouTubeTranscriptApi orchestrator   *)
(* (fetchTranscript, fetchTranscripts, caches, alternate Invidious         *)
(* gateway), the source extraction guard, the track catalog and selector.  *)
(*                                                                         *)
(* Strings whose characters the code inspects (identifiers, URLs) are      *)
(* sequences of atoms: an atom is one separator character ("/", ".", "?",  *)
(* "=", "&"), the scheme "https:", or a run of other characters.           *)
(***************************************************************************)
EXTENDS Integers, Sequences, FiniteSets, TLC

VARIABLES
    input,          \* argument of the pure function under check
    output,         \* its result
    cache,          \* this.cache: [html, transcript], key -> CacheEntry
    cacheOptions,   \* this.cacheOptions: [enabled, maxAge]
    invidiousOptions, \* this.invidiousOptions: [enabled, instanceUrls]
    invidiousClient,  \* this.invidiousClient: [isNull, baseURL, instanceUrls]
    invocations,    \* number of fetchTranscript invocations made so far
    now,            \* Date.now()
    calls,          \* the fetchTranscript invocations, one per slot
    batch           \* the fetchTranscripts invocation

vars == <<input, output, cache, cacheOptions, invidiousOptions,
          invidiousClient, invocations, now, calls, batch>>

(***************************************************************************)
(* Bounds                                                                  *)
(***************************************************************************)
MaxTracks == 2      \* longest captionTracks list enumerated
MaxLangs == 2       \* longest language preference list enumerated
MaxTime == 2        \* Date.now() ranges over 0..MaxTime
MaxCalls == 2       \* fetchTranscript invocations per behaviour
MaxBatchLen == 4    \* longest videoIds list given to fetchTranscripts

(***************************************************************************)
(* Program constants                                                       *)
(***************************************************************************)
batchSize == 3

(***************************************************************************)
(* Sequence helpers                                                        *)
(***************************************************************************)
Range(s) == {s[i] : i \in 1..Len(s)}

SeqsUpTo(S, n) == UNION {[1..k -> S] : k \in 0..n}

\* s.slice(n): the sequence without its first n elements
Slice(s, n) == IF n >= Len(s) THEN <<>> ELSE SubSeq(s, n + 1, Len(s))

\* s.startsWith(p)
StartsWith(s, p) == Len(s) >= Len(p) /\ SubSeq(s, 1, Len(p)) = p

\* index of the first element of s that is in S, or Len(s) + 1
FirstIn(s, S) ==
    IF \E i \in 1..Len(s) : s[i] \in S
    THEN CHOOSE i \in 1..Len(s) : s[i] \in S /\ \A j \in 1..(i - 1) : s[j] \notin S
    ELSE Len(s) + 1

\* s.split(sep)[0]
SplitFirst(s, sep) == SubSeq(s, 1, FirstIn(s, {sep}) - 1)

Count(s, x) == Cardinality({i \in 1..Len(s) : s[i] = x})

\* positions of x in s
Positions(s, x) == {i \in 1..Len(s) : s[i] = x}

(***************************************************************************)
(* Errors.  origin tells the object apart from an equal-looking error      *)
(* thrown by the other path (JavaScript errors have identity).             *)
(***************************************************************************)
NoLanguages == <<>>
NoVideoId == <<>>

\* one of the error classes of types.ts
Err(kind, videoId, languages, origin) ==
    [kind |-> kind, videoId |-> videoId, languages |-> languages, origin |-> origin,
     message |-> ""]

\* a plain Error
PlainError(message, origin) ==
    [kind |-> "Error", videoId |-> NoVideoId, languages |-> NoLanguages,
     origin |-> origin, message |-> message]

(***************************************************************************)
(* Identifier normalizer: YouTubeTranscriptApi.getVideoId                  *)
(***************************************************************************)
Scheme == <<"https:", "/", "/">>

\* the slashes after the scheme of a special URL: any number of them
RECURSIVE SkipSlashes(_)
SkipSlashes(s) == IF s # <<>> /\ s[1] = "/" THEN SkipSlashes(Tail(s)) ELSE s

\* new URL(s) on a text of "https:", "/", "?", "&", "=", "." and tokens whose
\* path has no "." or ".." segment: ok is FALSE when the constructor throws
\* (no scheme, or an empty host)
NewURL(s) ==
    LET rest == IF s = <<>> THEN <<>> ELSE SkipSlashes(Tail(s))
    IN  IF ~(s # <<>> /\ s[1] = "https:" /\ rest # <<>> /\ rest[1] # "?")
        THEN [ok |-> FALSE, hostname |-> <<>>, pathname |-> <<>>, search |-> <<>>]
        ELSE LET hostEnd == FirstIn(rest, {"/", "?"})
                 after == Slice(rest, hostEnd - 1)
                 qpos == FirstIn(after, {"?"})
             IN  [ok |-> TRUE,
                  hostname |-> SubSeq(rest, 1, hostEnd - 1),
                  pathname |-> IF qpos = 1 THEN <<"/">> ELSE SubSeq(after, 1, qpos - 1),
                  search |-> Slice(after, qpos)]

\* a searchParams.get that answers with the first parameter whatever its name
SearchParamsGetMutant(search, key) ==
    IF search = <<>> THEN [isNull |-> TRUE, value |-> <<>>]
    ELSE LET q == SplitFirst(search, "&")
         IN  [isNull |-> FALSE, value |-> Slice(q, 2)]

\* url.searchParams.get(key): the value of the first parameter named key;
\* isNull when there is none
RECURSIVE SearchParamsGet(_, _)
SearchParamsGet(search, key) ==
    IF search = <<>> THEN [isNull |-> TRUE, value |-> <<>>]
    ELSE LET p == SplitFirst(search, "&")
         IN  IF p # <<>> /\ p[1] = key /\ (Len(p) = 1 \/ p[2] = "=")
             THEN [isNull |-> FALSE, value |-> Slice(p, 2)]
             ELSE SearchParamsGet(Slice(search, Len(p) + 1), key)

\* truthiness of a string
Truthy(s) == s # <<>>

YoutuBe == <<"youtu", ".", "be">>
YoutubeHosts == {<<"youtube", ".", "com">>,
                 <<"www", ".", "youtube", ".", "com">>,
                 <<"m", ".", "youtube", ".", "com">>}
ShortsPrefix == <<"/", "shorts", "/">>
EmbedPrefix == <<"/", "embed", "/">>
LivePrefix == <<"/", "live", "/">>

IdOk(id) == [ok |-> TRUE, id |-> id]
IdFail(msg) == [ok |-> FALSE, id |-> <<>>, error |-> PlainError(msg, "getVideoId")]

getVideoId(videoIdOrUrl) ==
    IF videoIdOrUrl = <<>> THEN IdFail("Video ID or URL cannot be empty")
    ELSE IF "/" \notin Range(videoIdOrUrl) /\ "." \notin Range(videoIdOrUrl)
    THEN IdOk(videoIdOrUrl)
    ELSE LET url == NewURL(videoIdOrUrl) IN
    IF ~url.ok THEN IdFail("Invalid YouTube URL or video ID")
    ELSE LET id == SearchParamsGet(url.search, "v")
             path == url.pathname
         IN
    IF url.hostname = YoutuBe /\ Truthy(Slice(path, 1))
    THEN IdOk(Slice(path, 1))
    ELSE IF url.hostname \in YoutubeHosts /\ path = <<"/", "watch">>
            /\ ~id.isNull /\ Truthy(id.value)
    THEN IdOk(id.value)
    ELSE IF url.hostname \in YoutubeHosts /\ StartsWith(path, ShortsPrefix)
            /\ Truthy(Slice(path, Len(ShortsPrefix)))
    THEN IdOk(SplitFirst(Slice(path, Len(ShortsPrefix)), "/"))
    ELSE IF url.hostname \in YoutubeHosts /\ StartsWith(path, EmbedPrefix)
            /\ Truthy(Slice(path, Len(EmbedPrefix)))
    THEN IdOk(SplitFirst(Slice(path, Len(EmbedPrefix)), "/"))
    ELSE IF url.hostname \in YoutubeHosts /\ StartsWith(path, LivePrefix)
            /\ Truthy(Slice(path, Len(LivePrefix)))
    THEN IdOk(SplitFirst(Slice(path, Len(LivePrefix)), "/"))
    ELSE IdFail("Could not extract video ID")

(***************************************************************************)
(* Pages.  A page is the HTML text reduced to what the code looks at:      *)
(*   captions    what follows the first '"captions":' marker: "absent" (no *)
(*               marker), "badJson" (JSON.parse throws), "noRenderer" (no  *)
(*               playerCaptionsTracklistRenderer), "noTrackList" (no       *)
(*               captionTracks key) or "tracks"                            *)
(*   recaptcha   the page contains 'class="g-recaptcha"'                   *)
(*   playability the page contains '"playabilityStatus":'                  *)
(*   player      the ytInitialPlayerResponse assignment: "noMatch",        *)
(*               "badJson", "noDetails" (no videoDetails) or "ok"          *)
(*   captionTracks  the captionTracks list (when captions = "tracks")      *)
(***************************************************************************)
Langs == {"en", "es"}
Undefined == "undefined"
Kinds == {"asr", Undefined}

\* a raw track record; baseUrl is its position in the list
RawTracks == [languageCode : Langs, kind : Kinds, hasName : BOOLEAN]

WithUrls(raw) ==
    [i \in 1..Len(raw) |->
        [languageCode |-> raw[i].languageCode, kind |-> raw[i].kind,
         hasName |-> raw[i].hasName, baseUrl |-> i]]

TrackLists == {WithUrls(raw) : raw \in SeqsUpTo(RawTracks, MaxTracks)}

LangLists == SeqsUpTo(Langs, MaxLangs)

CaptionStates == {"absent", "badJson", "noRenderer", "noTrackList", "tracks"}
PlayerStates == {"noMatch", "badJson", "noDetails", "ok"}

Page(captions, recaptcha, playability, player, captionTracks) ==
    [captions |-> captions, recaptcha |-> recaptcha, playability |-> playability,
     player |-> player, captionTracks |-> captionTracks]

(***************************************************************************)
(* Metadata extractor: YouTubeTranscriptApi.extractMetadata                *)
(***************************************************************************)
extractMetadata(html) ==
    IF html.player = "noMatch"
    THEN [ok |-> FALSE,
          error |-> PlainError("Could not extract video metadata", "primary")]
    ELSE IF html.player # "ok"
    THEN [ok |-> FALSE,
          error |-> PlainError("Failed to parse video metadata", "primary")]
    ELSE [ok |-> TRUE, metadata |-> "VideoMetadata"]

(***************************************************************************)
(* Source extraction guard: YouTubeTranscriptApi.extractCaptionsJson       *)
(***************************************************************************)
GuardFail(kind, videoId) ==
    [ok |-> FALSE, error |-> Err(kind, videoId, NoLanguages, "primary")]

\* a guard that tests the playability marker before the challenge marker
extractCaptionsJsonMutant(html, videoId) ==
    IF html.captions = "absent"
    THEN IF ~html.playability THEN GuardFail("VideoUnavailable", videoId)
         ELSE IF html.recaptcha THEN GuardFail("IpBlocked", videoId)
         ELSE GuardFail("TranscriptsDisabled", videoId)
    ELSE IF html.captions \in {"badJson", "noRenderer"}
    THEN GuardFail("TranscriptsDisabled", videoId)
    ELSE IF html.captions = "noTrackList" THEN GuardFail("NoTranscriptFound", videoId)
    ELSE [ok |-> TRUE, captionsData |-> [captionTracks |-> html.captionTracks]]

\* a guard that takes a container without captionTracks for an empty list
extractCaptionsJsonLenient(html, videoId) ==
    IF html.captions = "absent"
    THEN IF html.recaptcha THEN GuardFail("IpBlocked", videoId)
         ELSE IF ~html.playability THEN GuardFail("VideoUnavailable", videoId)
         ELSE GuardFail("TranscriptsDisabled", videoId)
    ELSE IF html.captions \in {"badJson", "noRenderer"}
    THEN GuardFail("TranscriptsDisabled", videoId)
    ELSE [ok |-> TRUE, captionsData |-> [captionTracks |-> html.captionTracks]]

extractCaptionsJson(html, videoId) ==
    IF html.captions = "absent"
    THEN IF html.recaptcha THEN GuardFail("IpBlocked", videoId)
         ELSE IF ~html.playability THEN GuardFail("VideoUnavailable", videoId)
         ELSE GuardFail("TranscriptsDisabled", videoId)
    ELSE IF html.captions = "badJson" THEN GuardFail("TranscriptsDisabled", videoId)
    ELSE IF html.captions = "noRenderer" THEN GuardFail("TranscriptsDisabled", videoId)
    ELSE IF html.captions = "noTrackList" THEN GuardFail("NoTranscriptFound", videoId)
    ELSE [ok |-> TRUE, captionsData |-> [captionTracks |-> html.captionTracks]]

(***************************************************************************)
(* Track catalog: TranscriptList.build.  A Map is a set of <<key, value>>   *)
(* pairs with at most one pair per key.                                    *)
(***************************************************************************)
EmptyMap == {}

MapKeys(m) == {p[1] : p \in m}

MapHas(m, k) == k \in MapKeys(m)

MapGet(m, k) == (CHOOSE p \in m : p[1] = k)[2]

\* a set that keeps the value a key already has
MapSetFirst(m, k, v) == IF k \in {p[1] : p \in m} THEN m ELSE m \cup {<<k, v>>}

MapSet(m, k, v) == {p \in m : p[1] # k} \cup {<<k, v>>}

TranscriptEntry(videoId, track) ==
    [videoId |-> videoId, url |-> track.baseUrl, languageCode |-> track.languageCode,
     isGenerated |-> (track.kind = "asr")]

RECURSIVE BuildFrom(_, _, _, _, _)
BuildFrom(videoId, tracks, i, manual, generated) ==
    IF i > Len(tracks)
    THEN [ok |-> TRUE,
          list |-> [videoId |-> videoId, manualTranscripts |-> manual,
                    generatedTranscripts |-> generated]]
    ELSE IF ~tracks[i].hasName
    THEN [ok |-> FALSE, error |-> Err("TypeError", NoVideoId, NoLanguages, "primary")]
    ELSE IF tracks[i].kind = "asr"
    THEN BuildFrom(videoId, tracks, i + 1, manual,
                   MapSet(generated, tracks[i].languageCode, TranscriptEntry(videoId, tracks[i])))
    ELSE BuildFrom(videoId, tracks, i + 1,
                   MapSet(manual, tracks[i].languageCode, TranscriptEntry(videoId, tracks[i])),
                   generated)

build(videoId, captionsJson) ==
    BuildFrom(videoId, captionsJson.captionTracks, 1, EmptyMap, EmptyMap)

(***************************************************************************)
(* Track selector: TranscriptList.findTranscript                           *)
(***************************************************************************)
\* a lookup whose failure names no language
findTranscriptInMapMutant(videoId, languageCodes, transcriptMap) ==
    LET hits == {i \in 1..Len(languageCodes) : MapHas(transcriptMap, languageCodes[i])}
    IN  IF hits # {}
        THEN LET first == CHOOSE i \in hits : \A j \in hits : i <= j
             IN  [ok |-> TRUE, entry |-> MapGet(transcriptMap, languageCodes[first])]
        ELSE [ok |-> FALSE,
              error |-> Err("NoTranscriptFound", videoId, NoLanguages, "primary")]

findTranscriptInMap(videoId, languageCodes, transcriptMap) ==
    LET hits == {i \in 1..Len(languageCodes) : MapHas(transcriptMap, languageCodes[i])}
    IN  IF hits # {}
        THEN LET first == CHOOSE i \in hits : \A j \in hits : i <= j
             IN  [ok |-> TRUE, entry |-> MapGet(transcriptMap, languageCodes[first])]
        ELSE [ok |-> FALSE,
              error |-> Err("NoTranscriptFound", videoId, languageCodes, "primary")]

\* a selector that ranks language before provenance
RECURSIVE findTranscriptByRank(_, _, _)
findTranscriptByRank(list, languageCodes, i) ==
    IF i > Len(languageCodes)
    THEN [ok |-> FALSE,
          error |-> Err("NoTranscriptFound", list.videoId, languageCodes, "primary")]
    ELSE IF MapHas(list.manualTranscripts, languageCodes[i])
    THEN [ok |-> TRUE, entry |-> MapGet(list.manualTranscripts, languageCodes[i])]
    ELSE IF MapHas(list.generatedTranscripts, languageCodes[i])
    THEN [ok |-> TRUE, entry |-> MapGet(list.generatedTranscripts, languageCodes[i])]
    ELSE findTranscriptByRank(list, languageCodes, i + 1)

findTranscriptMutant(list, languageCodes) == findTranscriptByRank(list, languageCodes, 1)

findTranscript(list, languageCodes) ==
    LET manual == findTranscriptInMap(list.videoId, languageCodes, list.manualTranscripts)
    IN  IF manual.ok THEN manual
        ELSE findTranscriptInMap(list.videoId, languageCodes, list.generatedTranscripts)

(***************************************************************************)
(* Values of the orchestrator                                              *)
(***************************************************************************)
\* one slot for the resolution of each input position of a batch
Slots == 1..MaxBatchLen

NoInput == [fn |-> "none"]

NoError == Err("none", NoVideoId, NoLanguages, "none")

NoPage == Page("absent", FALSE, FALSE, "noMatch", <<>>)

NoEntry == [videoId |-> NoVideoId, url |-> 0, languageCode |-> "", isGenerated |-> FALSE]

NoPayload == [id |-> "", cues |-> 0]

NoSnippets == [dialect |-> "none", payload |-> NoPayload, preserveFormatting |-> FALSE]

NoTranscript ==
    [snippets |-> NoSnippets, videoId |-> NoVideoId, languageCode |-> "",
     isGenerated |-> FALSE]

NoCaption == [languageCode |-> "", kind |-> Undefined, hasUrl |-> FALSE]

\* the client object an instance attempt holds: the instance's current
\* client, or one that setInvidiousOptions has replaced since, whose base
\* address is the one it had then
CurrentClient == [current |-> TRUE, baseURL |-> ""]

ReplacedClient(baseURL) == [current |-> FALSE, baseURL |-> baseURL]

NoTarget == ""

\* the locals of one fetchTranscript invocation; seen and trace are history
NewCall(videoId, languages, preserveFormatting) ==
    [pc |-> "idle", videoId |-> videoId, languages |-> languages,
     preserveFormatting |-> preserveFormatting,
     shouldTryInvidiousFirst |-> FALSE, stage |-> "none",
     gwIdx |-> 0, gwUrls |-> <<>>, gwTrack |-> NoCaption,
     gwClient |-> CurrentClient, gwTarget |-> NoTarget,
     lastError |-> NoError, invidiousError |-> NoError,
     cachedTranscript |-> NoTranscript,
     seen |-> [exists |-> FALSE, young |-> FALSE, enabled |-> FALSE,
               data |-> NoTranscript, gateway |-> FALSE, client |-> FALSE],
     html |-> NoPage, obtained |-> FALSE,
     transcript |-> NoEntry,
     error |-> NoError,
     ok |-> FALSE, response |-> NoTranscript, thrown |-> NoError,
     trace |-> <<>>]

IdleCall == NewCall(NoVideoId, NoLanguages, FALSE)

\* the locals of one fetchTranscripts invocation; started and threw are
\* history: the input positions whose callback ran, and those whose callback
\* threw
NoBatch ==
    [pc |-> "idle", videoIds |-> <<>>, stopOnError |-> FALSE, i |-> 0,
     results |-> EmptyMap, errors |-> EmptyMap, thrown |-> NoError,
     started |-> {}, threw |-> {}]

Settled(call) == call.pc \in {"resolved", "rejected"}

Emit(call, event) == [call EXCEPT !.trace = Append(@, event)]

(***************************************************************************)
(* What the network can answer                                             *)
(***************************************************************************)
\* the watch pages the orchestrator specifications draw from
ChallengePage == Page("absent", TRUE, FALSE, "noMatch", <<>>)
DisabledPage == Page("absent", FALSE, TRUE, "ok", <<>>)
NoTrackListPage == Page("noTrackList", FALSE, TRUE, "ok", <<>>)
NoDetailsPage ==
    Page("tracks", FALSE, TRUE, "noDetails",
         WithUrls(<<[languageCode |-> "en", kind |-> "asr", hasName |-> TRUE]>>))
GoodPage ==
    Page("tracks", FALSE, TRUE, "ok",
         WithUrls(<<[languageCode |-> "en", kind |-> "asr", hasName |-> TRUE],
                    [languageCode |-> "es", kind |-> Undefined, hasName |-> TRUE]>>))

SomePages == {ChallengePage, DisabledPage, NoTrackListPage, NoDetailsPage, GoodPage}

\* answers to httpClient.get(WATCH_URL): the page for status 200
HtmlOutcomes ==
    [status : {200}, data : SomePages] \cup [status : {204, 403, 404}, data : {NoPage}]

\* answers to httpClient.get(track url): a caption payload or a failure
XmlPayloads == {[id |-> "xmlA", cues |-> 1], [id |-> "xmlB", cues |-> 2]}
PayloadOutcomes == [ok : {TRUE}, data : XmlPayloads] \cup {[ok |-> FALSE, data |-> NoPayload]}

(***************************************************************************)
(* YouTubeTranscriptApi.fetchVideoHtml on the answer to its request        *)
(***************************************************************************)
fetchVideoHtml(videoId, outcome) ==
    IF outcome.status = 200 THEN [ok |-> TRUE, html |-> outcome.data]
    ELSE IF outcome.status \in {404, 410}
    THEN [ok |-> FALSE, error |-> Err("VideoUnavailable", videoId, NoLanguages, "primary")]
    ELSE IF outcome.status = 403
    THEN [ok |-> FALSE, error |-> Err("IpBlocked", videoId, NoLanguages, "primary")]
    ELSE [ok |-> FALSE, error |-> Err("VideoUnavailable", videoId, NoLanguages, "primary")]

\* TranscriptEntry.parseTranscript, kept symbolic in the orchestrator
parseTranscript(xmlString, preserveFormatting) ==
    [dialect |-> "xml", payload |-> xmlString, preserveFormatting |-> preserveFormatting]

\* TranscriptEntry.fetch on the answer to its request
fetch(transcript, preserveFormatting, outcome) ==
    IF outcome.ok
    THEN [ok |-> TRUE,
          transcript |-> [snippets |-> parseTranscript(outcome.data, preserveFormatting),
                          videoId |-> transcript.videoId,
                          languageCode |-> transcript.languageCode,
                          isGenerated |-> transcript.isGenerated]]
    ELSE [ok |-> FALSE,
          error |-> Err("VideoUnavailable", transcript.videoId, NoLanguages, "primary")]

(***************************************************************************)
(* The caches                                                              *)
(***************************************************************************)
htmlCacheKey(videoId) == videoId

transcriptCacheKey(videoId, languages, preserveFormatting) ==
    <<videoId, languages, preserveFormatting>>

CacheEntry(data) == [data |-> data, timestamp |-> now]

\* a validity test with the age comparison inverted
isCacheValidMutant(m, key) ==
    /\ cacheOptions.enabled
    /\ MapHas(m, key)
    /\ now - MapGet(m, key).timestamp >= cacheOptions.maxAge

\* a validity test that leaves the enabled flag out
isCacheValidAlways(m, key) ==
    /\ MapHas(m, key)
    /\ now - MapGet(m, key).timestamp < cacheOptions.maxAge

\* isCacheValid(m.get(key))
isCacheValid(m, key) ==
    /\ cacheOptions.enabled
    /\ MapHas(m, key)
    /\ now - MapGet(m, key).timestamp < cacheOptions.maxAge

(***************************************************************************)
(* fetchTranscript, from one suspension point to the next.  Each operator  *)
(* maps the locals of the invocation to its locals at the next await or at *)
(* its settlement.                                                         *)
(***************************************************************************)
Reject(call, error) == [call EXCEPT !.pc = "rejected", !.ok = FALSE, !.thrown = error]

Resolve(call, transcript) ==
    [call EXCEPT !.pc = "resolved", !.ok = TRUE, !.response = transcript]

\* the base address a request through the attempt's client is sent to
RequestBase(call) ==
    IF call.gwClient.current THEN invidiousClient.baseURL ELSE call.gwClient.baseURL

\* the attempt's client and the target of its latest request go out of scope
LeaveGateway(call) == [call EXCEPT !.gwClient = CurrentClient, !.gwTarget = NoTarget]

\* one iteration of tryWithInvidiousInstances up to the video info request,
\* which goes to the base address just assigned
StartInstance(call, i) ==
    Emit([call EXCEPT !.pc = "gwInfo", !.gwIdx = i, !.gwClient = CurrentClient,
                      !.gwTarget = call.gwUrls[i]], "gateway")

\* fetchTranscriptFromInvidious with a client at hand
BeginGateway(call, stage) ==
    StartInstance([call EXCEPT !.stage = stage,
                               !.gwUrls = invidiousClient.instanceUrls,
                               !.lastError = NoError], 1)

\* a catch block that requests the page once more when that request failed
CatchMutant(call, error) ==
    IF call.pc = "html" /\ Count(call.trace, "pageFetch") < 2
    THEN Emit(call, "pageFetch")
    ELSE Reject(call, error)

\* the catch block of fetchTranscript
Catch(call, error) ==
    IF invidiousOptions.enabled /\ ~invidiousClient.isNull /\ ~call.shouldTryInvidiousFirst
    THEN BeginGateway([call EXCEPT !.error = error], "fallback")
    ELSE Reject(call, error)

\* from the page to the caption payload request
AfterHtml(call, html) ==
    LET c0 == Emit([call EXCEPT !.html = html, !.obtained = TRUE], "metadata")
        metadata == extractMetadata(html)
        c1 == Emit(c0, "guard")
        captionsJson == extractCaptionsJson(html, call.videoId)
        c2 == Emit(c1, "catalog")
        transcriptList == build(call.videoId, captionsJson.captionsData)
        c3 == Emit(c2, "select")
        transcript == findTranscript(transcriptList.list, call.languages)
    IN  IF ~metadata.ok THEN Catch(c0, metadata.error)
        ELSE IF ~captionsJson.ok THEN Catch(c1, captionsJson.error)
        ELSE IF ~transcriptList.ok THEN Catch(c2, transcriptList.error)
        ELSE IF ~transcript.ok THEN Catch(c3, transcript.error)
        ELSE Emit([c3 EXCEPT !.pc = "payload", !.transcript = transcript.entry],
                  "payloadFetch")

\* the try block of fetchTranscript up to its first request
PrimaryStart(call) ==
    LET key == transcriptCacheKey(call.videoId, call.languages, call.preserveFormatting)
        exists == MapHas(cache.transcript, key)
        c0 == [call EXCEPT !.seen.exists = exists,
                           !.seen.young = exists /\ now - MapGet(cache.transcript, key).timestamp
                                                        < cacheOptions.maxAge,
                           !.seen.data = IF exists THEN MapGet(cache.transcript, key).data
                                         ELSE NoTranscript,
                           !.seen.enabled = cacheOptions.enabled]
    IN  IF isCacheValid(cache.transcript, key)
        THEN Emit(Emit([c0 EXCEPT !.pc = "metaHtml",
                                  !.cachedTranscript = MapGet(cache.transcript, key).data],
                       "transcriptCached"), "pageFetch")
        ELSE IF isCacheValid(cache.html, htmlCacheKey(call.videoId))
        THEN AfterHtml(Emit(c0, "htmlCached"),
                       MapGet(cache.html, htmlCacheKey(call.videoId)).data)
        ELSE Emit([c0 EXCEPT !.pc = "html"], "pageFetch")

(***************************************************************************)
(* The alternate gateway: fetchTranscriptFromInvidious inside              *)
(* tryWithInvidiousInstances                                               *)
(***************************************************************************)
GwInfoOutcomes == {"ok", "empty", "fail"}

GwCaptionLists ==
    {<<>>,
     <<[languageCode |-> "en", kind |-> "asr", hasUrl |-> TRUE]>>,
     <<[languageCode |-> "es", kind |-> Undefined, hasUrl |-> FALSE],
       [languageCode |-> "en", kind |-> Undefined, hasUrl |-> TRUE]>>}

GwCaptionsOutcomes ==
    [ok : {TRUE}, captions : GwCaptionLists] \cup {[ok |-> FALSE, captions |-> <<>>]}

VttPayloads == {[id |-> "vttA", cues |-> 1], [id |-> "vttNoCues", cues |-> 0]}

GwPayloadOutcomes ==
    [ok : {TRUE}, data : VttPayloads] \cup {[ok |-> FALSE, data |-> NoPayload]}

\* parseWebVTT, kept symbolic in the orchestrator
parseWebVTT(vttContent, preserveFormatting) ==
    [dialect |-> "vtt", payload |-> vttContent, preserveFormatting |-> preserveFormatting]

GwError(kind, call) == Err(kind, call.videoId, call.languages, "gateway")

\* a fallback that throws its own error
GatewayFailedMutant(call, error) ==
    IF call.stage = "first"
    THEN PrimaryStart(Emit([LeaveGateway(call) EXCEPT !.invidiousError = error],
                           "gatewayFailed"))
    ELSE Reject(Emit([LeaveGateway(call) EXCEPT !.invidiousError = error],
                     "gatewayFailed"), error)

\* both attempts of fetchTranscript have an outcome for a failed gateway:
\* before the primary path it falls through, after it the first error is thrown
GatewayFailed(call, error) ==
    IF call.stage = "first"
    THEN PrimaryStart(Emit([LeaveGateway(call) EXCEPT !.invidiousError = error],
                           "gatewayFailed"))
    ELSE Reject(Emit([LeaveGateway(call) EXCEPT !.invidiousError = error],
                     "gatewayFailed"), call.error)

\* a loop that gives up at the first instance that fails
OperationFailedMutant(call, error, i) ==
    GatewayFailed([call EXCEPT !.lastError = error], error)

\* the catch of one iteration of tryWithInvidiousInstances and what follows:
\* the error is kept in lastError, which is thrown after the last instance
RECURSIVE OperationFailed(_, _, _)
OperationFailed(call, error, i) ==
    IF i + 1 > Len(call.gwUrls)
    THEN GatewayFailed([call EXCEPT !.lastError = error], error)
    ELSE IF invidiousClient.isNull
    THEN OperationFailed([call EXCEPT !.lastError = error],
                         Err("TypeError", NoVideoId, NoLanguages, "gateway"), i + 1)
    ELSE StartInstance([call EXCEPT !.lastError = error], i + 1)

\* the first caption of the answer whose code is the first requested code
\* that has one
GwSelect(captions, languages) ==
    LET hits == {i \in 1..Len(languages) :
                    \E k \in 1..Len(captions) : captions[k].languageCode = languages[i]}
    IN  IF hits = {} THEN [ok |-> FALSE, track |-> NoCaption]
        ELSE LET language == languages[CHOOSE i \in hits : \A j \in hits : i <= j]
                 k == CHOOSE k \in 1..Len(captions) :
                         /\ captions[k].languageCode = language
                         /\ \A j \in 1..(k - 1) : captions[j].languageCode # language
             IN  [ok |-> TRUE, track |-> captions[k]]

(***************************************************************************)
(* Actions of one fetchTranscript invocation in slot c                     *)
(***************************************************************************)
\* the invocation takes its next locals; starting an instance attempt sets
\* the shared client's base address
Update(c, call) ==
    /\ calls' = [calls EXCEPT ![c] = call]
    /\ invidiousClient' =
         IF call.pc = "gwInfo" /\ (calls[c].pc # "gwInfo" \/ calls[c].gwIdx # call.gwIdx)
         THEN [invidiousClient EXCEPT !.baseURL = call.gwUrls[call.gwIdx]]
         ELSE invidiousClient

\* a fetchTranscript that keeps the gateway for the fallback only
StartCallMutant(videoIdOrUrl, languages, preserveFormatting) ==
    LET id == getVideoId(videoIdOrUrl)
        call == [NewCall(id.id, languages, preserveFormatting) EXCEPT
                    !.seen.gateway = invidiousOptions.enabled,
                    !.seen.client = ~invidiousClient.isNull]
    IN  IF ~id.ok THEN Reject(call, id.error) ELSE PrimaryStart(call)

\* fetchTranscript up to its first await
StartCall(videoIdOrUrl, languages, preserveFormatting) ==
    LET id == getVideoId(videoIdOrUrl)
        first == invidiousOptions.enabled /\ ~invidiousClient.isNull
        call == [NewCall(id.id, languages, preserveFormatting) EXCEPT
                    !.shouldTryInvidiousFirst = first,
                    !.seen.gateway = invidiousOptions.enabled,
                    !.seen.client = ~invidiousClient.isNull]
    IN  IF ~id.ok THEN Reject(call, id.error)
        ELSE IF first THEN BeginGateway(call, "first")
        ELSE PrimaryStart(call)

FetchTranscript(c, videoIdOrUrl, languages, preserveFormatting) ==
    /\ batch.pc = "idle"
    /\ calls[c].pc = "idle" \/ Settled(calls[c])
    /\ invocations < MaxCalls
    /\ invocations' = invocations + 1
    /\ Update(c, StartCall(videoIdOrUrl, languages, preserveFormatting))
    /\ UNCHANGED <<input, output, cache, cacheOptions, invidiousOptions, now, batch>>

\* the page request of the cache-miss path is answered
HtmlDone(c, outcome) ==
    /\ calls[c].pc = "html"
    /\ LET html == fetchVideoHtml(calls[c].videoId, outcome)
       IN  IF html.ok
           THEN /\ cache' = [cache EXCEPT !.html =
                                MapSet(@, htmlCacheKey(calls[c].videoId), CacheEntry(html.html))]
                /\ Update(c, AfterHtml(Emit(calls[c], "pageObtained"), html.html))
           ELSE /\ cache' = cache
                /\ Update(c, Catch(calls[c], html.error))
    /\ UNCHANGED <<input, output, cacheOptions, invidiousOptions, invocations, now, batch>>

\* the page request of the transcript-cache-hit path is answered
MetaHtmlDone(c, outcome) ==
    /\ calls[c].pc = "metaHtml"
    /\ LET html == fetchVideoHtml(calls[c].videoId, outcome)
           call == Emit([calls[c] EXCEPT !.html = html.html, !.obtained = TRUE], "metadata")
       IN  IF ~html.ok THEN Update(c, Catch(calls[c], html.error))
           ELSE IF ~extractMetadata(html.html).ok
           THEN Update(c, Catch(call, extractMetadata(html.html).error))
           ELSE Update(c, Resolve(call, calls[c].cachedTranscript))
    /\ UNCHANGED <<input, output, cache, cacheOptions, invidiousOptions, invocations,
                   now, batch>>

\* the caption payload request is answered
PayloadDone(c, outcome) ==
    /\ calls[c].pc = "payload"
    /\ LET transcriptData == fetch(calls[c].transcript, calls[c].preserveFormatting, outcome)
           key == transcriptCacheKey(calls[c].videoId, calls[c].languages,
                                     calls[c].preserveFormatting)
       IN  IF transcriptData.ok
           THEN /\ cache' = [cache EXCEPT !.transcript =
                                MapSet(@, key, CacheEntry(transcriptData.transcript))]
                /\ Update(c, Resolve(calls[c], transcriptData.transcript))
           ELSE /\ cache' = cache
                /\ Update(c, Catch(calls[c], transcriptData.error))
    /\ UNCHANGED <<input, output, cacheOptions, invidiousOptions, invocations, now, batch>>

\* the gateway's video info request is answered
GwInfoDone(c, outcome) ==
    /\ calls[c].pc = "gwInfo"
    /\ IF outcome = "ok"
       THEN Update(c, [calls[c] EXCEPT !.pc = "gwCaptions",
                                       !.gwTarget = RequestBase(calls[c])])
       ELSE Update(c, OperationFailed(calls[c], GwError("VideoUnavailable", calls[c]),
                                      calls[c].gwIdx))
    /\ UNCHANGED <<input, output, cache, cacheOptions, invidiousOptions, invocations,
                   now, batch>>

\* the gateway's captions list request is answered
GwCaptionsDone(c, outcome) ==
    /\ calls[c].pc = "gwCaptions"
    /\ LET selected == GwSelect(outcome.captions, calls[c].languages)
       IN  IF outcome.ok /\ selected.ok /\ selected.track.hasUrl
           THEN Update(c, [calls[c] EXCEPT !.pc = "gwPayload", !.gwTrack = selected.track,
                                           !.gwTarget = RequestBase(calls[c])])
           ELSE Update(c, OperationFailed(calls[c], GwError("NoTranscriptFound", calls[c]),
                                          calls[c].gwIdx))
    /\ UNCHANGED <<input, output, cache, cacheOptions, invidiousOptions, invocations,
                   now, batch>>

\* the gateway's caption payload request is answered
GwPayloadDone(c, outcome) ==
    /\ calls[c].pc = "gwPayload"
    /\ LET snippets == parseWebVTT(outcome.data, calls[c].preserveFormatting)
           transcript == [snippets |-> snippets, videoId |-> calls[c].videoId,
                          languageCode |-> calls[c].gwTrack.languageCode,
                          isGenerated |-> (calls[c].gwTrack.kind = "asr")]
           key == transcriptCacheKey(calls[c].videoId, calls[c].languages,
                                     calls[c].preserveFormatting)
       IN  IF outcome.ok /\ outcome.data.cues > 0
           THEN /\ cache' = [cache EXCEPT !.transcript =
                                MapSet(@, key, CacheEntry(transcript))]
                /\ Update(c, Resolve(Emit(LeaveGateway(calls[c]), "gatewayOk"), transcript))
           ELSE /\ cache' = cache
                /\ Update(c, OperationFailed(calls[c], GwError("NoTranscriptFound", calls[c]),
                                             calls[c].gwIdx))
    /\ UNCHANGED <<input, output, cacheOptions, invidiousOptions, invocations, now, batch>>

(***************************************************************************)
(* fetchTranscripts: the references are resolved in groups of batchSize    *)
(***************************************************************************)
BatchLanguages == <<"en">>

Min(a, b) == IF a < b THEN a ELSE b

\* the input positions of videoIds.slice(i, i + batchSize)
GroupAt(videoIds, i) == (i + 1)..Min(i + batchSize, Len(videoIds))

\* the callback of batch.map on one reference up to its first await; for a
\* reference that does not normalize the catch block normalizes it again
\* and throws
MemberStart(videoIdOrUrl) ==
    LET id == getVideoId(videoIdOrUrl)
    IN  IF id.ok
        THEN [threw |-> FALSE, error |-> NoError,
              call |-> StartCall(id.id, BatchLanguages, FALSE)]
        ELSE [threw |-> TRUE, error |-> id.error, call |-> IdleCall]

\* a wait that ends as soon as one member promise has settled
PromiseAllMutant(b, cs) ==
    LET group == GroupAt(b.videoIds, b.i)
    IN  IF \E p \in group : p \in b.threw THEN "rejected"
        ELSE IF \E p \in group : Settled(cs[p]) THEN "fulfilled"
        ELSE "pending"

\* Promise.all(batchPromises)
PromiseAll(b, cs) ==
    LET group == GroupAt(b.videoIds, b.i)
    IN  IF \E p \in group : p \in b.threw THEN "rejected"
        ELSE IF \A p \in group : Settled(cs[p]) THEN "fulfilled"
        ELSE "pending"

\* one turn of the for loop up to await Promise.all: every callback of the
\* group runs to its first await; a member that begins with the gateway sets
\* the shared client's base address
StartGroup(b, cs, i) ==
    \E member \in {[p \in GroupAt(b.videoIds, i) |-> MemberStart(b.videoIds[p])]} :
    \E threw \in {{p \in DOMAIN member : member[p].threw}} :
    \E b1 \in {[b EXCEPT !.pc = "waiting", !.i = i,
                         !.started = @ \cup DOMAIN member, !.threw = @ \cup threw]} :
        /\ calls' = [p \in Slots |-> IF p \in DOMAIN member /\ ~member[p].threw
                                     THEN member[p].call ELSE cs[p]]
        /\ batch' =
             IF PromiseAll(b1, calls') = "rejected"
             THEN [b1 EXCEPT !.pc = "rejected",
                             !.thrown = member[CHOOSE p \in threw :
                                                  \A q \in threw : p <= q].error]
             ELSE b1
        /\ invidiousClient' =
             IF \E p \in DOMAIN member : ~member[p].threw /\ member[p].call.pc = "gwInfo"
             THEN [invidiousClient EXCEPT !.baseURL = invidiousClient.instanceUrls[1]]
             ELSE invidiousClient

\* the for loop at its test
Loop(b, cs, i) ==
    IF i < Len(b.videoIds) THEN StartGroup(b, cs, i)
    ELSE /\ batch' = [b EXCEPT !.pc = "returned"]
         /\ calls' = cs
         /\ invidiousClient' = invidiousClient

\* a result loop that returns at the first error whatever stopOnError is
RECURSIVE ProcessResultsMutant(_, _, _, _)
ProcessResultsMutant(b, cs, p, last) ==
    IF p > last THEN b
    ELSE LET videoId == getVideoId(b.videoIds[p]).id
         IN  IF ~cs[p].ok
             THEN [b EXCEPT !.errors = MapSet(@, videoId, cs[p].thrown),
                            !.pc = "returned"]
             ELSE ProcessResultsMutant([b EXCEPT !.results =
                                           MapSet(@, videoId, cs[p].response)],
                                       cs, p + 1, last)

\* for (const result of batchResults), from position p on
RECURSIVE ProcessResults(_, _, _, _)
ProcessResults(b, cs, p, last) ==
    IF p > last THEN b
    ELSE LET videoId == getVideoId(b.videoIds[p]).id
         IN  IF ~cs[p].ok
             THEN LET b1 == [b EXCEPT !.errors = MapSet(@, videoId, cs[p].thrown)]
                  IN  IF b.stopOnError THEN [b1 EXCEPT !.pc = "returned"]
                      ELSE ProcessResults(b1, cs, p + 1, last)
             ELSE ProcessResults([b EXCEPT !.results =
                                     MapSet(@, videoId, cs[p].response)],
                                 cs, p + 1, last)

\* fetchTranscripts up to its first await, or to its return on an empty list
FetchTranscripts(videoIds, stopOnError) ==
    /\ batch.pc = "idle"
    /\ \A c \in Slots : calls[c].pc = "idle"
    /\ Loop([NoBatch EXCEPT !.videoIds = videoIds, !.stopOnError = stopOnError], calls, 0)
    /\ UNCHANGED <<input, output, cache, cacheOptions, invidiousOptions, invocations, now>>

\* the continuation of await Promise.all: the results of the group are
\* recorded and the loop goes on or the invocation returns
GroupDone ==
    /\ batch.pc = "waiting"
    /\ PromiseAll(batch, calls) = "fulfilled"
    /\ \E b \in {ProcessResults(batch, calls, batch.i + 1,
                                Min(batch.i + batchSize, Len(batch.videoIds)))} :
          IF b.pc = "returned"
          THEN batch' = b /\ UNCHANGED <<calls, invidiousClient>>
          ELSE Loop(b, calls, batch.i + batchSize)
    /\ UNCHANGED <<input, output, cache, cacheOptions, invidiousOptions, invocations, now>>

(***************************************************************************)
(* Configuration and time                                                  *)
(***************************************************************************)
MaxAges == 1..MaxTime

UrlLists == {<<"">>, <<"i1">>, <<"i1", "i2">>}

Tick ==
    /\ now < MaxTime
    /\ now' = now + 1
    /\ UNCHANGED <<input, output, cache, cacheOptions, invidiousOptions, invidiousClient,
                   invocations, calls, batch>>

setCacheOptions(enabled, maxAge) ==
    /\ cacheOptions' = [enabled |-> enabled, maxAge |-> maxAge]
    /\ cacheOptions' # cacheOptions
    /\ UNCHANGED <<input, output, cache, invidiousOptions, invidiousClient, invocations,
                   now, calls, batch>>

\* a clearCache whose 'html' empties the transcript cache too
clearCacheMutant(type) ==
    /\ cache' = [html |-> IF type \in {"all", "html"} THEN EmptyMap ELSE cache.html,
                 transcript |-> IF type \in {"all", "html", "transcript"} THEN EmptyMap
                                ELSE cache.transcript]
    /\ UNCHANGED <<input, output, cacheOptions, invidiousOptions, invidiousClient,
                   invocations, now, calls, batch>>

\* clearCache(type); "all" stands for the call without an argument
clearCache(type) ==
    /\ cache' = [html |-> IF type \in {"all", "html"} THEN EmptyMap ELSE cache.html,
                 transcript |-> IF type \in {"all", "transcript"} THEN EmptyMap
                                ELSE cache.transcript]
    /\ UNCHANGED <<input, output, cacheOptions, invidiousOptions, invidiousClient,
                   invocations, now, calls, batch>>

\* the client initInvidiousClient creates
NewClient(instanceUrls) ==
    [isNull |-> FALSE, baseURL |-> instanceUrls[1], instanceUrls |-> instanceUrls]

NullClient == [isNull |-> TRUE, baseURL |-> "", instanceUrls |-> <<>>]

\* an instance attempt in flight keeps the client object it was given
ClientReplaced(call) ==
    IF call.pc \in {"gwInfo", "gwCaptions", "gwPayload"} /\ call.gwClient.current
    THEN [call EXCEPT !.gwClient = ReplacedClient(invidiousClient.baseURL)]
    ELSE call

\* the options are stored before the URL list is checked; a rejected list
\* leaves the client as it was
setInvidiousOptions(enabled, instanceUrls) ==
    /\ invidiousOptions' = [enabled |-> enabled, instanceUrls |-> instanceUrls]
    /\ \E kept \in {enabled /\ (Len(instanceUrls) = 0
                                   \/ (Len(instanceUrls) = 1 /\ instanceUrls[1] = ""))} :
          /\ invidiousClient' =
               IF ~enabled THEN NullClient
               ELSE IF kept THEN invidiousClient
               ELSE NewClient(instanceUrls)
          /\ calls' = [c \in Slots |->
                          IF kept THEN calls[c] ELSE ClientReplaced(calls[c])]
    /\ <<invidiousOptions', invidiousClient', calls'>> #
           <<invidiousOptions, invidiousClient, calls>>
    /\ UNCHANGED <<input, output, cache, cacheOptions, invocations, now, batch>>

(***************************************************************************)
(* The API instance after construction                                     *)
(***************************************************************************)
ApiInit ==
    /\ cache = [html |-> EmptyMap, transcript |-> EmptyMap]
    /\ cacheOptions = [enabled |-> TRUE, maxAge |-> MaxTime]
    /\ invidiousOptions = [enabled |-> FALSE, instanceUrls |-> <<"">>]
    /\ invidiousClient = NullClient
    /\ invocations = 0
    /\ now = 0
    /\ calls = [c \in Slots |-> IdleCall]
    /\ batch = NoBatch

apiVars == <<cache, cacheOptions, invidiousOptions, invidiousClient, invocations,
             now, calls, batch>>

(***************************************************************************)
(* Spec: single-video resolutions, one at a time, on an instance without   *)
(* the alternate gateway; the caches age and are reconfigured and cleared  *)
(* between and during the resolutions.                                     *)
(***************************************************************************)
V1 == <<"v1">>

CallLangs == {<<"en">>, <<"es", "en">>}

\* the arguments of the resolutions: one video under two preference lists
\* and as a short link, and a reference that does not normalize
CallInputs ==
    {<<V1, <<"en">>, FALSE>>, <<V1, <<"es", "en">>, FALSE>>,
     <<Scheme \o YoutuBe \o <<"/", "v1">>, <<"en">>, FALSE>>, <<<<>>, <<"en">>, FALSE>>}

Init ==
    /\ input = NoInput
    /\ output = NoInput
    /\ cache = [html |-> EmptyMap, transcript |-> EmptyMap]
    /\ cacheOptions \in [enabled : BOOLEAN, maxAge : MaxAges]
    /\ invidiousOptions = [enabled |-> FALSE, instanceUrls |-> <<"">>]
    /\ invidiousClient = NullClient
    /\ invocations = 0
    /\ now = 0
    /\ calls = [c \in Slots |-> IdleCall]
    /\ batch = NoBatch

Next ==
    \/ \E i \in CallInputs : FetchTranscript(1, i[1], i[2], i[3])
    \/ \E o \in HtmlOutcomes : HtmlDone(1, o)
    \/ \E o \in HtmlOutcomes : MetaHtmlDone(1, o)
    \/ \E o \in PayloadOutcomes : PayloadDone(1, o)
    \/ Tick
    \/ \E e \in BOOLEAN, a \in MaxAges : setCacheOptions(e, a)
    \/ \E t \in {"all", "html", "transcript"} : clearCache(t)

Spec == Init /\ [][Next]_vars

(***************************************************************************)
(* SpecGateway: single-video resolutions, one at a time, on an instance    *)
(* whose alternate gateway is configured at construction and reconfigured  *)
(* between and during the resolutions.                                     *)
(***************************************************************************)
GatewayRefs == {V1, <<>>}

\* the constructor throws on an enabled gateway without a usable URL
InitGateway ==
    /\ input = NoInput
    /\ output = NoInput
    /\ cache = [html |-> EmptyMap, transcript |-> EmptyMap]
    /\ cacheOptions = [enabled |-> TRUE, maxAge |-> MaxTime]
    /\ \E e \in BOOLEAN, u \in UrlLists :
          /\ e => u # <<"">>
          /\ invidiousOptions = [enabled |-> e, instanceUrls |-> u]
          /\ invidiousClient = IF e THEN NewClient(u) ELSE NullClient
    /\ invocations = 0
    /\ now = 0
    /\ calls = [c \in Slots |-> IdleCall]
    /\ batch = NoBatch

NextGateway ==
    \/ \E r \in GatewayRefs, l \in CallLangs : FetchTranscript(1, r, l, FALSE)
    \/ \E o \in HtmlOutcomes : HtmlDone(1, o)
    \/ \E o \in HtmlOutcomes : MetaHtmlDone(1, o)
    \/ \E o \in PayloadOutcomes : PayloadDone(1, o)
    \/ \E o \in GwInfoOutcomes : GwInfoDone(1, o)
    \/ \E o \in GwCaptionsOutcomes : GwCaptionsDone(1, o)
    \/ \E o \in GwPayloadOutcomes : GwPayloadDone(1, o)
    \/ \E e \in BOOLEAN, u \in UrlLists : setInvidiousOptions(e, u)

SpecGateway == InitGateway /\ [][NextGateway]_vars

(***************************************************************************)
(* SpecBatch: one batch resolution on an instance without the alternate    *)
(* gateway; the members of a group are answered in any order.              *)
(***************************************************************************)
\* two videos, one of them as a short link, and a reference that does not
\* normalize
BatchRefs == {V1, Scheme \o YoutuBe \o <<"/", "v2">>, <<>>}

BatchHtmlOutcomes ==
    {[status |-> 200, data |-> GoodPage], [status |-> 200, data |-> DisabledPage],
     [status |-> 404, data |-> NoPage]}

BatchPayloadOutcomes ==
    {[ok |-> TRUE, data |-> [id |-> "xmlA", cues |-> 1]], [ok |-> FALSE, data |-> NoPayload]}

InitBatch ==
    /\ input = NoInput
    /\ output = NoInput
    /\ ApiInit

NextBatch ==
    \/ \E v \in SeqsUpTo(BatchRefs, MaxBatchLen), s \in BOOLEAN : FetchTranscripts(v, s)
    \/ GroupDone
    \/ \E c \in Slots, o \in BatchHtmlOutcomes : HtmlDone(c, o)
    \/ \E c \in Slots, o \in BatchHtmlOutcomes : MetaHtmlDone(c, o)
    \/ \E c \in Slots, o \in BatchPayloadOutcomes : PayloadDone(c, o)

SpecBatch == InitBatch /\ [][NextBatch]_vars

(***************************************************************************)
(* Properties of single-video resolution                                   *)
(***************************************************************************)
Has(call, event) == event \in Range(call.trace)

\* the invocation got past getVideoId
Normalized(call) == call.pc # "idle" /\ call.thrown.origin # "getVideoId"

\* the invocation went down the cache-miss branch of the primary path and
\* has its page
PageInHand(call) == call.obtained /\ ~Has(call, "transcriptCached")

\* C3: when the guard fails on the page the primary path obtained,
\* fetchTranscript fails with the guard's error.
C3_GuardErrorSurfaces ==
    \A c \in Slots :
        (calls[c].pc = "rejected" /\ PageInHand(calls[c])
            /\ ~extractCaptionsJson(calls[c].html, calls[c].videoId).ok)
        => calls[c].thrown = extractCaptionsJson(calls[c].html, calls[c].videoId).error

\* what C6 promises of an invocation
ServedFromCache(call) ==
    /\ ~Has(call, "payloadFetch")
    /\ ~Has(call, "select")
    /\ call.pc = "resolved" =>
          /\ call.response = call.seen.data
          /\ Has(call, "pageFetch") \/ Has(call, "htmlCached")
          /\ Has(call, "metadata")

C7_PrimaryErrorSurfaces ==
    \A c \in Slots :
        (calls[c].pc = "rejected" /\ Has(calls[c], "gatewayFailed"))
        => /\ calls[c].thrown.origin = "primary"
           /\ calls[c].stage = "fallback" => calls[c].thrown = calls[c].error

C7_Witness ==
    /\ calls[1].pc = "rejected"
    /\ calls[1].stage = "fallback"
    /\ Has(calls[1], "gatewayFailed")
    /\ calls[1].thrown.origin = "primary"

PrimaryEvents == {"transcriptCached", "htmlCached", "pageFetch", "pageObtained",
                  "metadata", "guard", "catalog", "select", "payloadFetch"}

\* C8: an invocation that starts with the gateway enabled and its client at
\* hand consults the gateway first; a failed attempt is followed by the
\* primary path and its error is never thrown; a successful attempt resolves
\* the invocation without any step of the primary path.
C8_GatewayFirst ==
    \A c \in Slots :
        (Normalized(calls[c]) /\ calls[c].seen.gateway /\ calls[c].seen.client)
        => /\ calls[c].trace[1] = "gateway"
           /\ calls[c].pc = "rejected" => calls[c].thrown.origin # "gateway"
           /\ \A i \in 1..Len(calls[c].trace) :
                 calls[c].trace[i] = "gatewayFailed" =>
                    /\ i < Len(calls[c].trace)
                    /\ calls[c].trace[i + 1] \in PrimaryEvents
           /\ Has(calls[c], "gatewayOk") =>
                 /\ calls[c].pc = "resolved"
                 /\ Range(calls[c].trace) \cap PrimaryEvents = {}

C8_Witness ==
    /\ calls[1].seen.gateway
    /\ calls[1].seen.client
    /\ calls[1].pc = "resolved"
    /\ Has(calls[1], "gatewayFailed")
    /\ Has(calls[1], "payloadFetch")

(***************************************************************************)
(* Track selection as a function of the captionTracks list and the         *)
(* language preference list                                                *)
PageFetchPcs == {"html", "metaHtml"}

\* C11: whenever fetchTranscript begins a page fetch, on the transcript
\* cache hit path or on the miss path, the page cache holds no valid entry
\* for the identifier at that moment.
C11_PageCacheCheckedBeforeFetch ==
    [][\A c \in Slots :
          (calls[c].pc \notin PageFetchPcs /\ calls'[c].pc \in PageFetchPcs) =>
              ~isCacheValid(cache.html, htmlCacheKey(calls'[c].videoId))]_vars

\* the page cache is cleared: it is empty and no entry of the transcript
\* cache is touched, and the options stay
ClearedHtml ==
    /\ cache'.html = EmptyMap
    /\ cache'.transcript = cache.transcript
    /\ UNCHANGED <<cacheOptions, invidiousOptions, invidiousClient>>

ClearedTranscript ==
    /\ cache'.transcript = EmptyMap
    /\ cache'.html = cache.html
    /\ UNCHANGED <<cacheOptions, invidiousOptions, invidiousClient>>

ClearedAll ==
    /\ cache'.html = EmptyMap
    /\ cache'.transcript = EmptyMap
    /\ UNCHANGED <<cacheOptions, invidiousOptions, invidiousClient>>

\* C12: clearCache() empties both caches, clearCache('html') empties the
\* page cache and keeps every transcript entry, clearCache('transcript')
\* empties the transcript cache and keeps every page entry; none of them
\* changes the cache options or the gateway options.
C12_ClearCacheFrame ==
    [][/\ clearCache("all") => ClearedAll
       /\ clearCache("html") => ClearedHtml
       /\ clearCache("transcript") => ClearedTranscript]_vars

\* only clearCache('html') leaves an empty page cache beside a transcript
\* entry, and only clearCache('transcript') the converse
C12_Witness ==
    \/ cache.html = EmptyMap /\ cache.transcript # EmptyMap
    \/ cache.html # EmptyMap /\ cache.transcript = EmptyMap /\ calls[1].pc = "resolved"

(***************************************************************************)
(* Properties of batch resolution                                          *)
(***************************************************************************)
BatchPositions == 1..Len(batch.videoIds)

GroupOf(p) == (p - 1) \div batchSize

IdOf(p) == getVideoId(batch.videoIds[p]).id

\* the member promise of input position p has settled
Finished(p) == p \in batch.threw \/ Settled(calls[p])

\* the resolution of input position p has failed
Failed(p) == p \in batch.threw \/ calls[p].pc = "rejected"

InFlight == {p \in Slots : calls[p].pc \notin {"idle", "resolved", "rejected"}}

\* C4: with stopOnError = false, when fetchTranscripts has returned, every
\* input reference normalizes to an identifier that is a key of results or
\* of errors, whatever failed before it or beside it.
C4_EveryIdAccounted ==
    (batch.pc = "returned" /\ ~batch.stopOnError) =>
        \A p \in BatchPositions :
            /\ getVideoId(batch.videoIds[p]).ok
            /\ MapHas(batch.results, IdOf(p)) \/ MapHas(batch.errors, IdOf(p))

\* a returned batch of more than one group whose first group has a failed
\* member and whose later group has a resolved one
C4_Witness ==
    /\ batch.pc = "returned"
    /\ ~batch.stopOnError
    /\ \E p, q \in BatchPositions :
          /\ GroupOf(p) = 0 /\ calls[p].pc = "rejected"
          /\ GroupOf(q) = 1 /\ calls[q].pc = "resolved"
          /\ MapHas(batch.errors, IdOf(p))
          /\ MapHas(batch.results, IdOf(q))

\* C5: fetchTranscripts never rejects because of one item: the failure of
\* every member, a reference that does not normalize included, ends in the
\* errors map of a call that returns.
C5_FailuresCaptured ==
    /\ batch.pc # "rejected"
    /\ (batch.pc = "returned" /\ ~batch.stopOnError) =>
          \A p \in BatchPositions : Failed(p) => MapHas(batch.errors, IdOf(p))

\* C9: at most batchSize resolutions are in flight, the started positions
\* are the first whole groups of the input, and a position of a group has
\* started only if every position of every earlier group has finished.
C9_BoundedAndStaged ==
    /\ Cardinality(InFlight) <= batchSize
    /\ \E g \in 0..Len(batch.videoIds) :
          batch.started = 1..Min(g * batchSize, Len(batch.videoIds))
    /\ \A p \in batch.started, q \in BatchPositions :
          GroupOf(q) < GroupOf(p) => q \in batch.started /\ Finished(q)

\* the second group is in flight after a first group of batchSize members,
\* one of which failed
C9_Witness ==
    /\ batch.pc = "waiting"
    /\ batch.i = batchSize
    /\ batch.started = 1..(batchSize + 1)
    /\ InFlight = {batchSize + 1}
    /\ \E p \in 1..batchSize : calls[p].pc = "rejected"
    /\ \E p \in 1..batchSize : calls[p].pc = "resolved"

\* C10: with stopOnError = true, once a member of a group has failed no
\* position of a later group is started, and fetchTranscripts does not
\* reject but returns with a failure of that group in errors.
C10_FirstFailureAborts ==
    batch.stopOnError =>
        \A p \in batch.started :
            Failed(p) =>
                /\ \A q \in batch.started : GroupOf(q) <= GroupOf(p)
                /\ batch.pc \in {"waiting", "returned"}
                /\ batch.pc = "returned" =>
                      \E q \in batch.started :
                          /\ GroupOf(q) = GroupOf(p)
                          /\ Failed(q)
                          /\ MapHas(batch.errors, IdOf(q))

(***************************************************************************)
SomeVideo == <<"v1">>

InitSelect ==
    /\ input \in [fn : {"findTranscript"}, captionTracks : TrackLists,
                  languageCodes : LangLists]
    /\ output = NoInput
    /\ ApiInit

SelectTrack ==
    /\ input.fn = "findTranscript"
    /\ output.fn = "none"
    /\ LET built == build(SomeVideo, [captionTracks |-> input.captionTracks])
       IN  output' =
             IF built.ok
             THEN [fn |-> "findTranscript", built |-> TRUE, list |-> built.list,
                   result |-> findTranscript(built.list, input.languageCodes)]
             ELSE [fn |-> "findTranscript", built |-> FALSE, error |-> built.error]
    /\ UNCHANGED <<input, apiVars>>

NextSelect == SelectTrack

SpecSelect == InitSelect /\ [][NextSelect]_vars

\* the requested positions whose code has a track of the given provenance
Hits(tracks, languageCodes, generated) ==
    {i \in 1..Len(languageCodes) :
        \E t \in 1..Len(tracks) :
            /\ tracks[t].languageCode = languageCodes[i]
            /\ (tracks[t].kind = "asr") = generated}

Least(S) == CHOOSE i \in S : \A j \in S : i <= j

Selected == output.fn = "findTranscript" /\ output.built

\* C1: if any requested language has a manual track the selected track is
\* manual and is the first requested code with a manual track; only when no
\* requested code has a manual track is a generated track selected, again
\* the first requested code that has one.
C1_ManualBeforeGenerated ==
    Selected =>
        LET manual == Hits(input.captionTracks, input.languageCodes, FALSE)
            generated == Hits(input.captionTracks, input.languageCodes, TRUE)
        IN  /\ manual # {} =>
                /\ output.result.ok
                /\ ~output.result.entry.isGenerated
                /\ output.result.entry.languageCode = input.languageCodes[Least(manual)]
            /\ (manual = {} /\ generated # {}) =>
                /\ output.result.ok
                /\ output.result.entry.isGenerated
                /\ output.result.entry.languageCode = input.languageCodes[Least(generated)]

\* manual-only "es" and generated "en", preference <<"en", "es">>: manual "es"
C1_Witness ==
    /\ Selected
    /\ input.languageCodes = <<"en", "es">>
    /\ Hits(input.captionTracks, input.languageCodes, FALSE) = {2}
    /\ Hits(input.captionTracks, input.languageCodes, TRUE) = {1}
    /\ output.result.ok
    /\ output.result.entry.languageCode = "es"
    /\ ~output.result.entry.isGenerated

\* no requested code is a key of either mapping of the catalog
NoneMatches ==
    \A i \in 1..Len(input.languageCodes) :
        /\ ~MapHas(output.list.manualTranscripts, input.languageCodes[i])
        /\ ~MapHas(output.list.generatedTranscripts, input.languageCodes[i])

\* C15: selection fails exactly when no requested code is a key of the
\* manual or of the generated mapping, an empty preference list and an empty
\* catalog included, and it then fails with NoTranscriptFound carrying the
\* requested list.
C15_FailsIffNoneMatches ==
    Selected =>
        /\ ~output.result.ok <=> NoneMatches
        /\ ~output.result.ok =>
              /\ output.result.error.kind = "NoTranscriptFound"
              /\ output.result.error.languages = input.languageCodes
              /\ output.result.error.videoId = SomeVideo

\* a catalog with tracks, none of them in the requested language
C15_Witness ==
    /\ Selected
    /\ input.languageCodes = <<"es">>
    /\ MapKeys(output.list.manualTranscripts) = {"en"}
    /\ MapKeys(output.list.generatedTranscripts) = {"en"}
    /\ output.result.error.kind = "NoTranscriptFound"
    /\ output.result.error.languages = <<"es">>

\* the codes of the tracks of the list that have every field build reads
WellFormed(tracks, generated) ==
    {tracks[i].languageCode :
        i \in {j \in 1..Len(tracks) : tracks[j].hasName /\ (tracks[j].kind = "asr") = generated}}

\* C17: build does not fail on a list with malformed tracks: it returns the
\* catalog of exactly the well-formed ones.
C17_MalformedSkipped ==
    output.fn = "findTranscript" =>
        /\ output.built
        /\ MapKeys(output.list.manualTranscripts) = WellFormed(input.captionTracks, FALSE)
        /\ MapKeys(output.list.generatedTranscripts) = WellFormed(input.captionTracks, TRUE)

(***************************************************************************)
(* The guard as a function of the page                                     *)
(***************************************************************************)
AllPages ==
    {Page(c, r, p, m, <<>>) :
        c \in CaptionStates \ {"tracks"}, r \in BOOLEAN, p \in BOOLEAN, m \in PlayerStates}
    \cup
    {Page("tracks", x[1], x[2], x[3], t) :
        x \in BOOLEAN \X BOOLEAN \X PlayerStates, t \in TrackLists}

InitGuard ==
    /\ input \in [fn : {"extractCaptionsJson"}, html : AllPages]
    /\ output = NoInput
    /\ ApiInit

Classify ==
    /\ input.fn = "extractCaptionsJson"
    /\ output.fn = "none"
    /\ output' = [fn |-> "extractCaptionsJson",
                  result |-> extractCaptionsJson(input.html, SomeVideo)]
    /\ UNCHANGED <<input, apiVars>>

NextGuard == Classify

SpecGuard == InitGuard /\ [][NextGuard]_vars

Classified == output.fn = "extractCaptionsJson"

\* C2: on a page without the caption marker the guard fails with IpBlocked
\* whenever the challenge marker is present, otherwise with VideoUnavailable
\* when the playability marker is absent too, otherwise with
\* TranscriptsDisabled.
C2_ChallengeFirst ==
    (Classified /\ input.html.captions = "absent") =>
        /\ ~output.result.ok
        /\ output.result.error.videoId = SomeVideo
        /\ output.result.error.kind =
             IF input.html.recaptcha THEN "IpBlocked"
             ELSE IF ~input.html.playability THEN "VideoUnavailable"
             ELSE "TranscriptsDisabled"

\* a challenge page that also lacks the playability marker is IpBlocked
C2_Witness ==
    /\ Classified
    /\ input.html.captions = "absent"
    /\ input.html.recaptcha
    /\ ~input.html.playability
    /\ output.result.error.kind = "IpBlocked"

\* C16: with the caption marker present, a segment that does not parse or
\* has no playerCaptionsTracklistRenderer fails with TranscriptsDisabled, a
\* container without a captionTracks key fails with NoTranscriptFound
\* carrying an empty language list, and any other container is returned.
C16_MarkerPresent ==
    (Classified /\ input.html.captions # "absent") =>
        /\ input.html.captions \in {"badJson", "noRenderer"} =>
              /\ ~output.result.ok
              /\ output.result.error.kind = "TranscriptsDisabled"
              /\ output.result.error.videoId = SomeVideo
        /\ input.html.captions = "noTrackList" =>
              /\ ~output.result.ok
              /\ output.result.error.kind = "NoTranscriptFound"
              /\ output.result.error.languages = <<>>
              /\ output.result.error.videoId = SomeVideo
        /\ input.html.captions = "tracks" =>
              /\ output.result.ok
              /\ output.result.captionsData.captionTracks = input.html.captionTracks

\* a container without captionTracks on a page that also has the challenge
\* marker
C16_Witness ==
    /\ Classified
    /\ input.html.captions = "noTrackList"
    /\ input.html.recaptcha
    /\ output.result.error.kind = "NoTranscriptFound"

(***************************************************************************)
(* The normalizer as a function of the reference                           *)
(***************************************************************************)
VideoIds == {<<"v1">>, <<"v2">>}

Extra == <<"t", "=", "1">>

WatchPath == <<"/", "watch">>

PathPrefixes == {ShortsPrefix, EmbedPrefix, LivePrefix}

Case(ref, shape, id) == [ref |-> ref, shape |-> shape, id |-> id]

\* the accepted shapes of a reference to the video id
ShortLinks(id) ==
    {Case(Scheme \o YoutuBe \o <<"/">> \o id \o q, "short", id) :
        q \in {<<>>, <<"?">> \o Extra}}

WatchLinks(id) ==
    {Case(Scheme \o x[1] \o WatchPath \o <<"?">> \o x[2], "watch", id) :
        x \in YoutubeHosts \X {<<"v", "=">> \o id,
                               <<"v", "=">> \o id \o <<"&">> \o Extra,
                               Extra \o <<"&", "v", "=">> \o id}}

PathLinks(id) ==
    {Case(Scheme \o x[1] \o x[2] \o id \o x[3], "path", id) :
        x \in YoutubeHosts \X PathPrefixes \X {<<>>, <<"/">>, <<"?">> \o Extra}}

BareIds ==
    {Case(id, "bare", id) : id \in VideoIds \cup {<<"invalid-url">>, <<"v", "=", "v1">>}}

AcceptedCases ==
    BareIds \cup UNION {ShortLinks(id) \cup WatchLinks(id) \cup PathLinks(id) : id \in VideoIds}

\* references the normalizer is to refuse
NotUrls ==
    {<<"a", "/", "b">>, <<"a", ".", "b">>, YoutuBe \o <<"/", "v1">>,
     <<"www", ".", "youtube", ".", "com">> \o WatchPath \o <<"?", "v", "=", "v1">>,
     Scheme, <<"/">>, <<".">>}

WatchWithoutV ==
    {Scheme \o x[1] \o WatchPath \o x[2] :
        x \in YoutubeHosts \X {<<>>, <<"?">>, <<"?">> \o Extra}}

WatchWithEmptyV ==
    {Scheme \o x[1] \o WatchPath \o <<"?">> \o x[2] :
        x \in YoutubeHosts \X {<<"v", "=">>, <<"v">>, <<"v", "=", "&">> \o Extra}}

Unrecognized ==
    {Scheme \o <<"example", ".", "com">> \o WatchPath \o <<"?", "v", "=", "v1">>,
     Scheme \o <<"example", ".", "com">> \o <<"/", "v1">>,
     Scheme \o YoutuBe, Scheme \o YoutuBe \o <<"/">>,
     Scheme \o YoutuBe \o <<"?", "v", "=", "v1">>}
    \cup {Scheme \o h \o p : h \in YoutubeHosts,
                             p \in PathPrefixes \cup {<<>>, <<"/">>, <<"/", "shorts">>,
                                                      <<"/", "playlist", "?", "list", "=", "v1">>,
                                                      <<"/", "v1">>}}

RefusedCases ==
    {Case(<<>>, "empty", <<>>)}
    \cup {Case(r, "notUrl", <<>>) : r \in NotUrls}
    \cup {Case(r, "watchWithoutV", <<>>) : r \in WatchWithoutV}
    \cup {Case(r, "watchWithEmptyV", <<>>) : r \in WatchWithEmptyV}
    \cup {Case(r, "unrecognized", <<>>) : r \in Unrecognized}

\* a shorts, embed or live path whose first segment is empty
EmptySegmentCases ==
    {Case(Scheme \o x[1] \o x[2] \o <<"/">> \o x[3], "emptySegment", <<>>) :
        x \in YoutubeHosts \X PathPrefixes \X VideoIds}

RefusedShapes == {"empty", "notUrl", "watchWithoutV", "watchWithEmptyV", "unrecognized"}

InitNormalize ==
    /\ \E c \in AcceptedCases \cup RefusedCases \cup EmptySegmentCases :
          input = [fn |-> "getVideoId", ref |-> c.ref, shape |-> c.shape, id |-> c.id]
    /\ output = NoInput
    /\ ApiInit

Normalize ==
    /\ input.fn = "getVideoId"
    /\ output.fn = "none"
    /\ output' = [fn |-> "getVideoId", result |-> getVideoId(input.ref)]
    /\ UNCHANGED <<input, apiVars>>

NextNormalize == Normalize

SpecNormalize == InitNormalize /\ [][NextNormalize]_vars

NormalizerRan == output.fn = "getVideoId"

C14_RefusedOrNonEmpty ==
    NormalizerRan =>
        /\ input.shape \in RefusedShapes => ~output.result.ok
        /\ output.result.ok => output.result.id # <<>>

(***************************************************************************)
(* Payload parser: TranscriptEntry.parseTranscript.  A payload is a        *)
(* sequence of tokens: the opening <text start=".." dur=".."> and closing  *)
(* </text> of an element, words, white space, and inline tags.  An inline  *)
(* tag is written with its angle brackets escaped esc times: 0 is <i>,     *)
(* 1 is &lt;i&gt;, 2 is &amp;lt;i&amp;gt; and so on.                        *)
(***************************************************************************)
FORMATTING_TAGS ==
    {"strong", "em", "b", "i", "mark", "small", "del", "ins", "sub", "sup"}

Tok(kind, name, closing, esc, start, dur) ==
    [kind |-> kind, name |-> name, closing |-> closing, esc |-> esc,
     start |-> start, dur |-> dur]

Open(start, dur) == Tok("open", "text", FALSE, 0, start, dur)
Close == Tok("close", "text", TRUE, 0, <<>>, <<>>)
Word(w) == Tok("word", w, FALSE, 0, <<>>, <<>>)
Space == Tok("space", " ", FALSE, 0, <<>>, <<>>)
Tag(name, closing, esc) == Tok("tag", name, closing, esc, <<>>, <<>>)

\* the token holds a '<'
HasLt(tok) == tok.kind \in {"open", "close"} \/ (tok.kind = "tag" /\ tok.esc = 0)

\* decodeAndClean: the replace chain undoes one level of escaping
\* (&amp;lt; becomes &lt;, &lt; becomes <) and decode() one more
decodeAndClean(text) ==
    [i \in 1..Len(text) |->
        IF text[i].kind = "tag"
        THEN [text[i] EXCEPT !.esc = IF @ >= 2 THEN @ - 2 ELSE 0]
        ELSE text[i]]

\* getHtmlRegex(preserveFormatting) as the set of tags the expression matches
getHtmlRegex(preserveFormatting, tok) ==
    /\ tok.kind = "tag"
    /\ tok.esc = 0
    /\ preserveFormatting => tok.name \notin FORMATTING_TAGS

\* text.replace(regex, '') for a regex given as a predicate on tokens
RECURSIVE Remove(_, _, _)
Remove(text, preserveFormatting, i) ==
    IF i > Len(text) THEN <<>>
    ELSE IF getHtmlRegex(preserveFormatting, text[i])
    THEN Remove(text, preserveFormatting, i + 1)
    ELSE <<text[i]>> \o Remove(text, preserveFormatting, i + 1)

\* .replace(/\s+/g, ' ') followed by .trim()
RECURSIVE NormalizeWhitespace(_, _, _)
NormalizeWhitespace(text, i, out) ==
    IF i > Len(text)
    THEN IF out # <<>> /\ out[Len(out)].kind = "space" THEN SubSeq(out, 1, Len(out) - 1)
         ELSE out
    ELSE IF text[i].kind = "space" /\ (out = <<>> \/ out[Len(out)].kind = "space")
    THEN NormalizeWhitespace(text, i + 1, out)
    ELSE NormalizeWhitespace(text, i + 1, Append(out, text[i]))

DigitChars == <<"0", "1", "2", "3", "4", "5", "6", "7", "8", "9">>

IsDigit(c) == \E n \in 1..10 : DigitChars[n] = c

DigitValue(c) == (CHOOSE n \in 1..10 : DigitChars[n] = c) - 1

NaN == [nan |-> TRUE, tenths |-> 0]

Number(tenths) == [nan |-> FALSE, tenths |-> tenths]

RECURSIVE DigitsValue(_, _, _)
DigitsValue(s, n, acc) ==
    IF n = 0 THEN acc ELSE DigitsValue(Tail(s), n - 1, 10 * acc + DigitValue(s[1]))

\* parseFloat on a text of an optional sign, digits and at most one digit
\* after the point; the value is kept in tenths
parseFloat(s) ==
    LET neg == s # <<>> /\ s[1] = "-"
        body == IF neg THEN Tail(s) ELSE s
        stop == FirstIn(body, {c \in Range(body) : ~IsDigit(c)})
        n == stop - 1
        frac == Len(body) >= n + 2 /\ body[n + 1] = "." /\ IsDigit(body[n + 2])
        tenths == 10 * DigitsValue(body, n, 0) + (IF frac THEN DigitValue(body[n + 2]) ELSE 0)
    IN  IF n = 0 /\ ~frac THEN NaN
        ELSE Number(IF neg THEN 0 - tenths ELSE tenths)

\* the body of the while loop of parseTranscript on the captured text
XmlSnippet(start, duration, text, preserveFormatting) ==
    LET decoded == decodeAndClean(text)
    IN  [text |-> IF ~preserveFormatting
                  THEN NormalizeWhitespace(Remove(decoded, preserveFormatting, 1), 1, <<>>)
                  ELSE decoded,
         start |-> parseFloat(start),
         duration |-> parseFloat(duration)]

\* the loop over RE_XML_TRANSCRIPT.exec from token i on: an element matches
\* when the first '<' after its opening is its closing
RECURSIVE ExecAll(_, _, _, _)
ExecAll(decodedXml, i, preserveFormatting, snippets) ==
    IF i > Len(decodedXml) THEN snippets
    ELSE IF decodedXml[i].kind # "open"
    THEN ExecAll(decodedXml, i + 1, preserveFormatting, snippets)
    ELSE LET rest == Slice(decodedXml, i)
             j == i + FirstIn(rest, {t \in Range(rest) : HasLt(t)})
         IN  IF j <= Len(decodedXml) /\ decodedXml[j].kind = "close"
             THEN ExecAll(decodedXml, j + 1, preserveFormatting,
                          Append(snippets,
                                 XmlSnippet(decodedXml[i].start, decodedXml[i].dur,
                                            SubSeq(decodedXml, i + 1, j - 1),
                                            preserveFormatting)))
             ELSE ExecAll(decodedXml, i + 1, preserveFormatting, snippets)

TranscriptEntry_parseTranscript(xmlString, preserveFormatting) ==
    ExecAll(decodeAndClean(xmlString), 1, preserveFormatting, <<>>)

(***************************************************************************)
(* Payload parser of the gateway: YouTubeTranscriptApi.parseWebVTT.  The   *)
(* content is its sequence of lines; a line is a timing line (it holds one *)
(* '-->', between two time texts) or a line of text tokens.  A time text   *)
(* is the sequence of its parts between colons.                            *)
(***************************************************************************)
Line(kind, text, start, end) == [kind |-> kind, text |-> text, start |-> start, end |-> end]

TimingLine(start, end) == Line("timing", <<>>, start, end)
TextLine(text) == Line("text", text, <<>>, <<>>)

\* s.trim()
RECURSIVE Trim(_)
Trim(text) ==
    IF text # <<>> /\ text[1].kind = "space" THEN Trim(Tail(text))
    ELSE IF text # <<>> /\ text[Len(text)].kind = "space"
    THEN Trim(SubSeq(text, 1, Len(text) - 1))
    ELSE text

Includes(line) == line.kind = "timing"

IsBlank(line) == ~Includes(line) /\ Trim(line.text) = <<>>

Newline == Tok("space", "\n", FALSE, 0, <<>>, <<>>)

\* a number times an integer
Times(a, k) == IF a.nan THEN NaN ELSE Number(a.tenths * k)

Plus(a, b) == IF a.nan \/ b.nan THEN NaN ELSE Number(a.tenths + b.tenths)

Minus(a, b) == IF a.nan \/ b.nan THEN NaN ELSE Number(a.tenths - b.tenths)

timeToSeconds(timestamp) ==
    IF Len(timestamp) = 3
    THEN Plus(Plus(Times(parseFloat(timestamp[1]), 3600),
                   Times(parseFloat(timestamp[2]), 60)),
              parseFloat(timestamp[3]))
    ELSE IF Len(timestamp) = 2
    THEN Plus(Times(parseFloat(timestamp[1]), 60), parseFloat(timestamp[2]))
    ELSE Number(0)

\* textContent.replace(/<[^>]*>/g, '')
StripTags(text) == Remove(text, FALSE, 1)

\* the text lines from i up to an empty line or a timing line, trimmed and
\* joined by line feeds
RECURSIVE Collect(_, _, _)
Collect(lines, i, textContent) ==
    IF i > Len(lines) \/ IsBlank(lines[i]) \/ Includes(lines[i])
    THEN [i |-> i, textContent |-> textContent]
    ELSE Collect(lines, i + 1,
                 (IF textContent # <<>> THEN textContent \o <<Newline>> ELSE textContent)
                     \o Trim(lines[i].text))

RECURSIVE SkipBlank(_, _)
SkipBlank(lines, i) ==
    IF i <= Len(lines) /\ IsBlank(lines[i]) THEN SkipBlank(lines, i + 1) ELSE i

\* the cue loop of parseWebVTT from line i on
RECURSIVE Cues(_, _, _, _)
Cues(lines, i, preserveFormatting, snippets) ==
    IF i > Len(lines) THEN snippets
    ELSE IF ~Includes(lines[i]) THEN Cues(lines, i + 1, preserveFormatting, snippets)
    ELSE LET startTime == timeToSeconds(lines[i].start)
             endTime == timeToSeconds(lines[i].end)
             got == Collect(lines, i + 1, <<>>)
             text == IF preserveFormatting THEN got.textContent
                     ELSE StripTags(got.textContent)
         IN  Cues(lines, SkipBlank(lines, got.i), preserveFormatting,
                  IF Trim(text) # <<>>
                  THEN Append(snippets, [text |-> Trim(text), start |-> startTime,
                                         duration |-> Minus(endTime, startTime)])
                  ELSE snippets)

\* the header loop ends at the first timing line
YouTubeTranscriptApi_parseWebVTT(vttContent, preserveFormatting) ==
    Cues(vttContent, FirstIn(vttContent, {l \in Range(vttContent) : Includes(l)}),
         preserveFormatting, <<>>)

(***************************************************************************)
(* The parsers as functions of the payload                                 *)
(***************************************************************************)
MaxElements == 2    \* most <text> elements in an XML payload
MaxCues == 2        \* most cues in a WebVTT payload

\* an attribute or time text and the number it denotes
Numeral(text, value) == [text |-> text, value |-> value]

XmlTimes ==
    {<<Numeral(<<"0">>, Number(0)), Numeral(<<"4", ".", "5">>, Number(45))>>,
     <<Numeral(<<"1", "2">>, Number(120)), Numeral(<<"3">>, Number(30))>>,
     <<Numeral(<<"-", "1">>, Number(0 - 10)), Numeral(<<"x">>, NaN)>>}

\* a <name>b</name> c, the tag escaped esc times
InlineBody(name, esc) ==
    <<Word("a"), Space, Tag(name, FALSE, esc), Word("b"), Tag(name, TRUE, esc),
      Space, Word("c")>>

\* the same text without its tags
StrippedBody == <<Word("a"), Space, Word("b"), Space, Word("c")>>

PlainBodies == {<<>>, <<Word("a")>>, <<Space, Word("a"), Space, Space, Word("b")>>}

Bodies == PlainBodies \cup {InlineBody(n, e) : n \in {"i", "font"}, e \in {0, 1, 3}}

Elements == {[start |-> t[1], dur |-> t[2], body |-> b] : t \in XmlTimes, b \in Bodies}

RECURSIVE XmlOf(_)
XmlOf(elements) ==
    IF elements = <<>> THEN <<>>
    ELSE <<Open(elements[1].start.text, elements[1].dur.text)>> \o elements[1].body
             \o <<Close>> \o XmlOf(Tail(elements))

VttTimes ==
    {<<Numeral(<<<<"0">>, <<"0">>, <<"1">>>>, Number(10)),
       Numeral(<<<<"0">>, <<"1">>, <<"2", ".", "5">>>>, Number(625))>>,
     <<Numeral(<<<<"1">>, <<"2", ".", "5">>>>, Number(625)),
       Numeral(<<<<"1">>, <<"5">>>>, Number(650))>>,
     <<Numeral(<<<<"0">>, <<"0">>, <<"1">>>>, Number(10)),
       Numeral(<<<<"0">>, <<"0">>, <<"4">>, <<"s">>>>, Number(0))>>}

VttTexts ==
    {<<TextLine(<<Word("a")>>)>>,
     <<TextLine(InlineBody("i", 0))>>,
     <<TextLine(InlineBody("c", 0))>>,
     <<TextLine(<<Space, Word("a")>>), TextLine(<<Word("b"), Space>>)>>,
     <<TextLine(<<Tag("c", FALSE, 0), Tag("c", TRUE, 0)>>)>>}

VttCues == {[start |-> t[1], end |-> t[2], lines |-> x] : t \in VttTimes, x \in VttTexts}

VttHeader == <<TextLine(<<Word("WEBVTT")>>), TextLine(<<>>)>>

RECURSIVE VttOf(_)
VttOf(cues) ==
    IF cues = <<>> THEN <<>>
    ELSE <<TimingLine(cues[1].start.text, cues[1].end.text)>> \o cues[1].lines
             \o <<TextLine(<<>>)>> \o VttOf(Tail(cues))

InitParse ==
    /\ \/ \E e \in SeqsUpTo(Elements, MaxElements), f \in BOOLEAN :
             input = [fn |-> "parseTranscript", elements |-> e, xmlString |-> XmlOf(e),
                      preserveFormatting |-> f]
       \/ \E c \in SeqsUpTo(VttCues, MaxCues), f \in BOOLEAN :
             input = [fn |-> "parseWebVTT", cues |-> c,
                      vttContent |-> VttHeader \o VttOf(c), preserveFormatting |-> f]
    /\ output = NoInput
    /\ ApiInit

ParseXml ==
    /\ input.fn = "parseTranscript"
    /\ output.fn = "none"
    /\ output' = [fn |-> "parseTranscript",
                  snippets |-> TranscriptEntry_parseTranscript(input.xmlString,
                                                               input.preserveFormatting)]
    /\ UNCHANGED <<input, apiVars>>

ParseVtt ==
    /\ input.fn = "parseWebVTT"
    /\ output.fn = "none"
    /\ output' = [fn |-> "parseWebVTT",
                  snippets |-> YouTubeTranscriptApi_parseWebVTT(input.vttContent,
                                                                input.preserveFormatting)]
    /\ UNCHANGED <<input, apiVars>>

NextParse == ParseXml \/ ParseVtt

SpecParse == InitParse /\ [][NextParse]_vars

ParsedXml == output.fn = "parseTranscript"

ParsedVtt == output.fn = "parseWebVTT"

\* C18: an element whose body holds an inline <i> tag, written plainly or
\* as &lt;i&gt;, yields a snippet: with preserveFormatting its text keeps the
\* tags, without it the tags are gone and the words are one space apart.
C18_InlineTagElement ==
    (/\ ParsedXml
     /\ Len(input.elements) = 1
     /\ \E esc \in {0, 1} : input.elements[1].body = InlineBody("i", esc)) =>
        /\ Len(output.snippets) = 1
        /\ output.snippets[1].text =
             IF input.preserveFormatting THEN InlineBody("i", 0) ELSE StrippedBody

\* the tags of a text
TagsOf(text) == {text[i] : i \in {j \in 1..Len(text) : text[j].kind = "tag" /\ text[j].esc = 0}}

\* C19: in both dialects no emitted text holds a tag when preserveFormatting
\* is off, and none but tags of FORMATTING_TAGS when it is on.
C19_OnlyAllowedTags ==
    (ParsedXml \/ ParsedVtt) =>
        \A i \in 1..Len(output.snippets) :
            \A tag \in TagsOf(output.snippets[i].text) :
                input.preserveFormatting /\ tag.name \in FORMATTING_TAGS

\* C20: parseTranscript returns one snippet for each element of the payload,
\* in the order of the payload, with the start and the duration its
\* attributes denote; the empty payload gives the empty list.
C20_OneSnippetPerElement ==
    ParsedXml =>
        /\ Len(output.snippets) = Len(input.elements)
        /\ \A i \in 1..Len(input.elements) :
              /\ output.snippets[i].start = input.elements[i].start.value
              /\ output.snippets[i].duration = input.elements[i].dur.value

(***************************************************************************)
(* The formatters.  A string is a sequence of characters and short         *)
(* literals; a time is a whole number of ticks.                            *)
(***************************************************************************)
MaxSnippets == 2        \* most snippets in a formatted transcript

TicksPerSecond == 5000

\* a time is written with at most four decimal places
TicksPerPlace == 10000 \div TicksPerSecond

Seconds(n) == n * TicksPerSecond

Millis(n) == n * (TicksPerSecond \div 1000)

\* Number.prototype.toString of a non-negative integer
RECURSIVE toString(_)
toString(num) ==
    IF num < 10 THEN <<DigitChars[num + 1]>>
    ELSE Append(toString(num \div 10), DigitChars[(num % 10) + 1])

RECURSIVE padStart(_, _, _)
padStart(s, width, fill) ==
    IF Len(s) >= width THEN s ELSE padStart(<<fill>> \o s, width, fill)

pad(num, width) == padStart(toString(num), width, "0")

RECURSIVE Join(_, _)
Join(parts, sep) ==
    IF parts = <<>> THEN <<>>
    ELSE IF Len(parts) = 1 THEN parts[1]
    ELSE parts[1] \o sep \o Join(Tail(parts), sep)

\* String.prototype.split on a one-character separator
RECURSIVE Split(_, _, _, _)
Split(s, sep, cur, out) ==
    IF s = <<>> THEN Append(out, cur)
    ELSE IF s[1] = sep THEN Split(Tail(s), sep, <<>>, Append(out, cur))
    ELSE Split(Tail(s), sep, Append(cur, s[1]), out)

divmod(n, d) == <<n \div d, n % d>>

\* Math.round of ticks taken as milliseconds
RoundToMillis(ticks) == (2 * ticks + Millis(1)) \div (2 * Millis(1))

SRTFormatter_formatTimestamp(hours, mins, secs, ms) ==
    pad(hours, 2) \o <<":">> \o pad(mins, 2) \o <<":">> \o pad(secs, 2) \o <<",">> \o pad(ms, 3)

WebVTTFormatter_formatTimestamp(hours, mins, secs, ms) ==
    pad(hours, 2) \o <<":">> \o pad(mins, 2) \o <<":">> \o pad(secs, 2) \o <<".">> \o pad(ms, 3)

formatTimestamp(type, hours, mins, secs, ms) ==
    IF type = "srt" THEN SRTFormatter_formatTimestamp(hours, mins, secs, ms)
    ELSE WebVTTFormatter_formatTimestamp(hours, mins, secs, ms)

secondsToTimestamp(type, time) ==
    LET hr == divmod(time, Seconds(3600))
        ms == divmod(hr[2], Seconds(60))
        millis == RoundToMillis(time - Seconds(time \div TicksPerSecond))
    IN  formatTimestamp(type, hr[1], ms[1], ms[2] \div TicksPerSecond, millis)

Arrow == <<" ", "-", "-", ">", " ">>

\* a variant that numbers the blocks from 0
SRTFormatter_formatTranscriptLineMutant(index, timeText, snippet) ==
    toString(index) \o <<"\n">> \o timeText \o <<"\n">> \o snippet.text

SRTFormatter_formatTranscriptLine(index, timeText, snippet) ==
    toString(index + 1) \o <<"\n">> \o timeText \o <<"\n">> \o snippet.text

WebVTTFormatter_formatTranscriptLine(index, timeText, snippet) ==
    timeText \o <<"\n">> \o snippet.text

formatTranscriptLine(type, index, timeText, snippet) ==
    IF type = "srt" THEN SRTFormatter_formatTranscriptLine(index, timeText, snippet)
    ELSE WebVTTFormatter_formatTranscriptLine(index, timeText, snippet)

SRTFormatter_formatTranscriptHeader(lines) == Join(lines, <<"\n", "\n">>) \o <<"\n">>

WebVTTFormatter_formatTranscriptHeader(lines) ==
    <<"WEBVTT", "\n", "\n">> \o Join(lines, <<"\n", "\n">>) \o <<"\n">>

formatTranscriptHeader(type, lines) ==
    IF type = "srt" THEN SRTFormatter_formatTranscriptHeader(lines)
    ELSE WebVTTFormatter_formatTranscriptHeader(lines)

\* a variant that ends every cue at its own start + duration
CueEndMutant(snippets, i) == snippets[i].start + snippets[i].duration

\* the end time of the cue of snippet i
CueEnd(snippets, i) ==
    LET end == snippets[i].start + snippets[i].duration
        nextStart == IF i < Len(snippets) THEN snippets[i + 1].start ELSE end
    IN  IF nextStart < end THEN nextStart ELSE end

\* the time range of the cue of snippet i
TimeText(type, snippets, i) ==
    secondsToTimestamp(type, snippets[i].start) \o Arrow
        \o secondsToTimestamp(type, CueEnd(snippets, i))

TextBasedFormatter_format(type, transcript) ==
    LET lines == [i \in 1..Len(transcript.snippets) |->
                     formatTranscriptLine(type, i - 1,
                                          TimeText(type, transcript.snippets, i),
                                          transcript.snippets[i])]
    IN  formatTranscriptHeader(type, lines)

TextFormatter_format(transcript) ==
    Join([i \in 1..Len(transcript.snippets) |-> transcript.snippets[i].text], <<"\n">>)

(***************************************************************************)
(* JSON: the values JSON.stringify walks, its text and JSON.parse          *)
(***************************************************************************)
JV(t, num, str, bool, keys, items) ==
    [t |-> t, num |-> num, str |-> str, bool |-> bool, keys |-> keys, items |-> items]

JNum(ticks) == JV("num", ticks, <<>>, FALSE, <<>>, <<>>)
JStr(s) == JV("str", 0, s, FALSE, <<>>, <<>>)
JBool(b) == JV("bool", 0, <<>>, b, <<>>, <<>>)
JArr(items) == JV("arr", 0, <<>>, FALSE, <<>>, items)
JObj(keys, items) == JV("obj", 0, <<>>, FALSE, keys, items)
SyntaxError == JV("err", 0, <<>>, FALSE, <<>>, <<>>)

SnippetJson(snippet) ==
    JObj(<<<<"text">>, <<"start">>, <<"duration">>>>,
         <<JStr(snippet.text), JNum(snippet.start), JNum(snippet.duration)>>)

TranscriptJson(transcript) ==
    JObj(<<<<"snippets">>, <<"videoId">>, <<"language">>, <<"languageCode">>,
           <<"isGenerated">>>>,
         <<JArr([i \in 1..Len(transcript.snippets) |-> SnippetJson(transcript.snippets[i])]),
           JStr(transcript.videoId), JStr(transcript.language),
           JStr(transcript.languageCode), JBool(transcript.isGenerated)>>)

RECURSIVE StripZeros(_)
StripZeros(digits) ==
    IF digits # <<>> /\ digits[Len(digits)] = "0"
    THEN StripZeros(SubSeq(digits, 1, Len(digits) - 1)) ELSE digits

\* the decimal text of a non-negative time
NumberText(ticks) ==
    LET frac == StripZeros(pad((ticks % TicksPerSecond) * TicksPerPlace, 4))
    IN  toString(ticks \div TicksPerSecond) \o (IF frac = <<>> THEN <<>> ELSE <<".">> \o frac)

RECURSIVE Escape(_)
Escape(s) ==
    IF s = <<>> THEN <<>>
    ELSE (CASE s[1] = "\n" -> <<"\\", "n">>
            [] s[1] = "\"" -> <<"\\", "\"">>
            [] s[1] = "\\" -> <<"\\", "\\">>
            [] OTHER -> <<s[1]>>) \o Escape(Tail(s))

Quote(s) == <<"\"">> \o Escape(s) \o <<"\"">>

RECURSIVE Indent(_)
Indent(level) == IF level = 0 THEN <<>> ELSE <<" ", " ">> \o Indent(level - 1)

\* JSON.stringify(value, null, 2)
RECURSIVE stringify(_, _)
stringify(v, level) ==
    CASE v.t = "num" -> NumberText(v.num)
      [] v.t = "str" -> Quote(v.str)
      [] v.t = "bool" -> IF v.bool THEN <<"true">> ELSE <<"false">>
      [] v.t = "arr" ->
            IF v.items = <<>> THEN <<"[", "]">>
            ELSE <<"[", "\n">>
                 \o Join([i \in 1..Len(v.items) |->
                             Indent(level + 1) \o stringify(v.items[i], level + 1)],
                         <<",", "\n">>)
                 \o <<"\n">> \o Indent(level) \o <<"]">>
      [] v.t = "obj" ->
            IF v.items = <<>> THEN <<"{", "}">>
            ELSE <<"{", "\n">>
                 \o Join([i \in 1..Len(v.items) |->
                             Indent(level + 1) \o Quote(v.keys[i]) \o <<":", " ">>
                                \o stringify(v.items[i], level + 1)],
                         <<",", "\n">>)
                 \o <<"\n">> \o Indent(level) \o <<"}">>

JSONFormatter_format(transcript) == stringify(TranscriptJson(transcript), 0)

\* a variant that joins the texts of the transcripts as the base class does
JSONFormatter_formatTranscriptsMutant(transcripts) ==
    Join([i \in 1..Len(transcripts) |-> JSONFormatter_format(transcripts[i])],
         <<"\n", "\n", "\n">>)

JSONFormatter_formatTranscripts(transcripts) ==
    stringify(JArr([i \in 1..Len(transcripts) |-> TranscriptJson(transcripts[i])]), 0)

\* the text at a position, or the empty literal past the end
At(text, i) == IF i <= Len(text) THEN text[i] ELSE ""

RECURSIVE SkipWs(_, _)
SkipWs(text, i) == IF At(text, i) \in {" ", "\n"} THEN SkipWs(text, i + 1) ELSE i

Parsed(v, next) == [v |-> v, next |-> next]

Rejected == Parsed(SyntaxError, 0)

\* the characters of a string literal from position i, after its opening quote
RECURSIVE ParseString(_, _, _)
ParseString(text, i, acc) ==
    CASE i > Len(text) \/ text[i] = "\n" -> Rejected
      [] text[i] = "\"" -> Parsed(JStr(acc), i + 1)
      [] text[i] = "\\" ->
            (CASE At(text, i + 1) = "n" -> ParseString(text, i + 2, Append(acc, "\n"))
               [] At(text, i + 1) \in {"\"", "\\"} ->
                     ParseString(text, i + 2, Append(acc, text[i + 1]))
               [] OTHER -> Rejected)
      [] OTHER -> ParseString(text, i + 1, Append(acc, text[i]))

RECURSIVE DigitsEnd(_, _)
DigitsEnd(text, i) == IF IsDigit(At(text, i)) THEN DigitsEnd(text, i + 1) ELSE i

RECURSIVE Scale(_, _)
Scale(n, k) == IF k = 0 THEN n ELSE Scale(10 * n, k - 1)

\* a number literal of digits and an optional fraction of at most four digits
ParseNumber(text, i) ==
    LET j == DigitsEnd(text, i)
        whole == DigitsValue(SubSeq(text, i, j - 1), j - i, 0)
        k == IF At(text, j) = "." THEN DigitsEnd(text, j + 1) ELSE j
        places == IF k > j THEN k - j - 1 ELSE 0
        frac == IF places = 0 THEN 0
                ELSE Scale(DigitsValue(SubSeq(text, j + 1, k - 1), places, 0), 4 - places)
    IN  IF (k > j /\ places = 0) \/ places > 4 THEN Rejected
        ELSE Parsed(JNum(whole * TicksPerSecond + frac \div TicksPerPlace), k)

RECURSIVE ParseValue(_, _)
RECURSIVE ParseElements(_, _, _)
RECURSIVE ParseMembers(_, _, _, _)
\* the value that starts at position i
ParseValue(text, i) ==
    CASE At(text, i) = "\"" -> ParseString(text, i + 1, <<>>)
      [] At(text, i) = "true" -> Parsed(JBool(TRUE), i + 1)
      [] At(text, i) = "false" -> Parsed(JBool(FALSE), i + 1)
      [] IsDigit(At(text, i)) -> ParseNumber(text, i)
      [] At(text, i) = "[" ->
            IF At(text, SkipWs(text, i + 1)) = "]"
            THEN Parsed(JArr(<<>>), SkipWs(text, i + 1) + 1)
            ELSE ParseElements(text, SkipWs(text, i + 1), <<>>)
      [] At(text, i) = "{" ->
            IF At(text, SkipWs(text, i + 1)) = "}"
            THEN Parsed(JObj(<<>>, <<>>), SkipWs(text, i + 1) + 1)
            ELSE ParseMembers(text, SkipWs(text, i + 1), <<>>, <<>>)
      [] OTHER -> Rejected

ParseElements(text, i, items) ==
    \* the rest of an array from the element that starts at i
    LET r == ParseValue(text, i)
        j == SkipWs(text, r.next)
    IN  CASE r.v.t = "err" -> Rejected
          [] At(text, j) = "," ->
                ParseElements(text, SkipWs(text, j + 1), Append(items, r.v))
          [] At(text, j) = "]" -> Parsed(JArr(Append(items, r.v)), j + 1)
          [] OTHER -> Rejected

ParseMembers(text, i, keys, items) ==
    \* the rest of an object from the member that starts at i
    LET k == IF At(text, i) = "\"" THEN ParseString(text, i + 1, <<>>) ELSE Rejected
        c == SkipWs(text, k.next)
        r == IF k.v.t # "err" /\ At(text, c) = ":"
             THEN ParseValue(text, SkipWs(text, c + 1)) ELSE Rejected
        j == SkipWs(text, r.next)
    IN  CASE r.v.t = "err" -> Rejected
          [] At(text, j) = "," ->
                ParseMembers(text, SkipWs(text, j + 1), Append(keys, k.v.str),
                             Append(items, r.v))
          [] At(text, j) = "}" ->
                Parsed(JObj(Append(keys, k.v.str), Append(items, r.v)), j + 1)
          [] OTHER -> Rejected

\* JSON.parse: the value of the whole text, or a SyntaxError
JSON_parse(text) ==
    LET r == ParseValue(text, SkipWs(text, 1))
    IN  IF r.v.t = "err" \/ SkipWs(text, r.next) <= Len(text) THEN SyntaxError ELSE r.v

(***************************************************************************)
(* The formatter factory                                                   *)
(***************************************************************************)
FormatterTypes == <<"json", "text", "srt", "webvtt">>

FormatterClasses == <<"JSONFormatter", "TextFormatter", "SRTFormatter", "WebVTTFormatter">>

\* what a property read of FormatterFactory.TYPES gives: one of its four own
\* members, or what the object inherits from Object.prototype
Property(kind, class) == [kind |-> kind, class |-> class]

TYPES(type) ==
    CASE \E i \in 1..4 : FormatterTypes[i] = type ->
            Property("class", FormatterClasses[CHOOSE i \in 1..4 : FormatterTypes[i] = type])
      [] type = "constructor" -> Property("class", "Object")
      [] type \in {"toString", "valueOf", "hasOwnProperty"} -> Property("method", "")
      [] type = "__proto__" -> Property("object", "")
      [] OTHER -> Property("undefined", "")

Created(kind, class, message, names) ==
    [kind |-> kind, class |-> class, message |-> message, names |-> names]

\* new FormatterClass()
New(property) ==
    IF property.kind = "class" THEN Created("instance", property.class, "", <<>>)
    ELSE Created("error", "TypeError", "is not a constructor", <<>>)

\* the argument of create: a name, or nothing
Given(type) == [given |-> TRUE, type |-> type]

NotGiven == [given |-> FALSE, type |-> ""]

FormatterFactory_create(arg) ==
    LET type == IF arg.given THEN arg.type ELSE "json"
        FormatterClass == TYPES(type)
    IN  IF FormatterClass.kind = "undefined"
        THEN Created("error", "Error", "is not supported", FormatterTypes)
        ELSE New(FormatterClass)

\* format of the formatter that create gives for a supported type
Formatter_format(type, transcript) ==
    LET formatter == FormatterFactory_create(Given(type))
    IN  CASE formatter.class = "JSONFormatter" -> JSONFormatter_format(transcript)
          [] formatter.class = "TextFormatter" -> TextFormatter_format(transcript)
          [] OTHER -> TextBasedFormatter_format(type, transcript)

(***************************************************************************)
(* SpecFormat: the formatters and the factory as functions of their input  *)
(***************************************************************************)
MaxTranscripts == 2     \* most transcripts given to formatTranscripts

FormatTexts == {<<"a">>, <<"a", " ", "b", "\n", "c">>, <<"\"", "a", "\"">>}

FormatStarts == {0, Seconds(1), Millis(2500), Seconds(3600), Millis(999) + 3}

FormatDurations == {Millis(500), Seconds(3)}

FormatSnippets ==
    {[text |-> t, start |-> s, duration |-> d] :
        t \in FormatTexts, s \in FormatStarts, d \in FormatDurations}

MakeTranscript(snippets, videoId, isGenerated) ==
    [snippets |-> snippets, videoId |-> videoId, language |-> <<"English">>,
     languageCode |-> <<"e", "n">>, isGenerated |-> isGenerated]

FormatTranscripts ==
    {MakeTranscript(s, <<"v", "1">>, FALSE) : s \in SeqsUpTo(FormatSnippets, MaxSnippets)}

Line1 == [text |-> <<"a">>, start |-> 0, duration |-> Millis(2500)]

Line2 == [text |-> <<"a", " ", "b", "\n", "c">>, start |-> Millis(2500), duration |-> Seconds(3)]

FewTranscripts ==
    {MakeTranscript(s, v, g) :
        s \in {<<>>, <<Line1>>, <<Line1, Line2>>}, v \in {<<"v", "1">>, <<"v", "2">>},
        g \in BOOLEAN}

FormatTimes ==
    {0, 2, 3, Millis(999) + 2, Millis(999) + 3, Seconds(1), Millis(2500),
     Seconds(59) + Millis(999) + 3, Seconds(60), Seconds(3599) + Millis(999),
     Seconds(3600), Seconds(3661) + Millis(1), Seconds(36000), Seconds(360000)}

FactoryArgs ==
    {NotGiven} \cup {Given(t) : t \in Range(FormatterTypes)
                                    \cup {"invalid", "", "constructor", "toString", "__proto__"}}

InitFormat ==
    /\ \/ \E type \in Range(FormatterTypes), t \in FormatTranscripts :
             input = [fn |-> "format", type |-> type, transcript |-> t]
       \/ \E ts \in SeqsUpTo(FewTranscripts, MaxTranscripts) :
             input = [fn |-> "formatTranscripts", type |-> "json", transcripts |-> ts]
       \/ \E type \in {"srt", "webvtt"}, time \in FormatTimes :
             input = [fn |-> "secondsToTimestamp", type |-> type, time |-> time]
       \/ \E arg \in FactoryArgs :
             input = [fn |-> "create", arg |-> arg]
    /\ output = NoInput
    /\ ApiInit

Format ==
    /\ input.fn = "format"
    /\ output.fn = "none"
    /\ output' = [fn |-> "format", text |-> Formatter_format(input.type, input.transcript)]
    /\ UNCHANGED <<input, apiVars>>

FormatAll ==
    /\ input.fn = "formatTranscripts"
    /\ output.fn = "none"
    /\ output' = [fn |-> "formatTranscripts",
                  text |-> JSONFormatter_formatTranscripts(input.transcripts)]
    /\ UNCHANGED <<input, apiVars>>

Render ==
    /\ input.fn = "secondsToTimestamp"
    /\ output.fn = "none"
    /\ output' = [fn |-> "secondsToTimestamp",
                  text |-> secondsToTimestamp(input.type, input.time)]
    /\ UNCHANGED <<input, apiVars>>

Create ==
    /\ input.fn = "create"
    /\ output.fn = "none"
    /\ output' = [fn |-> "create", formatter |-> FormatterFactory_create(input.arg)]
    /\ UNCHANGED <<input, apiVars>>

NextFormat == Format \/ FormatAll \/ Render \/ Create

SpecFormat == InitFormat /\ [][NextFormat]_vars

(***************************************************************************)
(* Properties of the formatters                                            *)
(***************************************************************************)
Lines(text) == Split(text, "\n", <<>>, <<>>)

\* format has returned the text of a transcript as SRT or WebVTT
Cued == output.fn = "format" /\ input.type \in {"srt", "webvtt"}

\* the time-range lines of a text, in order
TimeLines(text) == SelectSeq(Lines(text), LAMBDA line : ">" \in Range(line))

\* the two timestamps of a time-range line
RangeStart(line) == SubSeq(line, 1, FirstIn(line, {">"}) - 4)

RangeEnd(line) == SubSeq(line, FirstIn(line, {">"}) + 2, Len(line))

\* C21: in SRT and WebVTT output every cue starts at the start of its
\* snippet; the cue of a snippet that has a successor ends at the lesser of
\* its own start + duration and the successor's start, and the cue of the
\* last snippet ends at its own start + duration.
C21_CueEndsAtLesser ==
    Cued =>
        LET snippets == input.transcript.snippets
            ranges == TimeLines(output.text)
        IN  /\ Len(ranges) = Len(snippets)
            /\ \A i \in 1..Len(snippets) :
                  LET own == snippets[i].start + snippets[i].duration
                      end == IF i < Len(snippets) THEN Min(own, snippets[i + 1].start)
                             ELSE own
                  IN  /\ RangeStart(ranges[i]) = secondsToTimestamp(input.type, snippets[i].start)
                      /\ RangeEnd(ranges[i]) = secondsToTimestamp(input.type, end)

C21_Witness ==
    /\ Cued
    /\ Len(input.transcript.snippets) = 2
    /\ input.transcript.snippets[2].start
         < input.transcript.snippets[1].start + input.transcript.snippets[1].duration
    /\ input.transcript.snippets[2].start > input.transcript.snippets[1].start
    /\ RangeEnd(TimeLines(output.text)[1])
         = secondsToTimestamp(input.type, input.transcript.snippets[2].start)

AllDigits(s) == \A i \in 1..Len(s) : IsDigit(s[i])

Value(s) == DigitsValue(s, Len(s), 0)

Abs(n) == IF n < 0 THEN 0 - n ELSE n

\* C22: the timestamp of a non-negative time has an hour field of two or
\* more digits, minute and second fields of two digits in 00..59 and a
\* millisecond field of three digits, separated by ',' in SRT and '.' in
\* WebVTT, and denotes the time to the millisecond.
C22_TimestampFields ==
    (output.fn = "secondsToTimestamp") =>
        LET fields == Split(output.text, ":", <<>>, <<>>)
            last == Split(fields[3], IF input.type = "srt" THEN "," ELSE ".", <<>>, <<>>)
        IN  /\ Len(fields) = 3
            /\ Len(last) = 2
            /\ Len(fields[1]) >= 2 /\ AllDigits(fields[1])
            /\ Len(fields[2]) = 2 /\ AllDigits(fields[2]) /\ Value(fields[2]) <= 59
            /\ Len(last[1]) = 2 /\ AllDigits(last[1]) /\ Value(last[1]) <= 59
            /\ Len(last[2]) = 3 /\ AllDigits(last[2])
            /\ 2 * Abs(Millis(((Value(fields[1]) * 60 + Value(fields[2])) * 60
                                 + Value(last[1])) * 1000 + Value(last[2]))
                       - input.time) <= Millis(1)

\* the lines of the blocks from snippet k on, each block followed by a blank line
RECURSIVE BlockLines(_, _, _)
BlockLines(type, snippets, k) ==
    IF k > Len(snippets) THEN <<>>
    ELSE (IF type = "srt" THEN <<toString(k)>> ELSE <<>>)
           \o <<TimeText(type, snippets, k)>> \o Lines(snippets[k].text) \o << <<>> >>
           \o BlockLines(type, snippets, k + 1)

\* C23: SRT output is one block of index, time range and text for each
\* snippet, numbered 1..n in snippet order, with one blank line between
\* blocks and one newline at the end; WebVTT output is the line WEBVTT, a
\* blank line and the same blocks without the index.
C23_BlockLayout ==
    Cued =>
        LET snippets == input.transcript.snippets
            header == IF input.type = "srt" THEN <<>> ELSE << <<"WEBVTT">>, <<>> >>
        IN  IF snippets = <<>>
            THEN output.text = (IF input.type = "srt" THEN <<>> ELSE <<"WEBVTT", "\n", "\n">>)
                                  \o <<"\n">>
            ELSE Lines(output.text) = header \o BlockLines(input.type, snippets, 1)

C23_Witness ==
    /\ Cued
    /\ input.type = "srt"
    /\ Len(input.transcript.snippets) = 2
    /\ Lines(output.text)[1] = <<"1">>
    /\ \E i \in 2..Len(Lines(output.text)) :
          Lines(output.text)[i - 1] = <<>> /\ Lines(output.text)[i] = <<"2">>

\* C24: the text of JSONFormatter.formatTranscripts parses as an array with
\* one element for each transcript, the i-th equal to the i-th transcript;
\* the text of JSONFormatter.format parses back to the transcript; neither
\* text holds the separator of three newlines.
C24_JsonRoundTrip ==
    /\ (output.fn = "format" /\ input.type = "json") =>
          JSON_parse(output.text) = TranscriptJson(input.transcript)
    /\ (output.fn = "formatTranscripts") =>
          LET parsed == JSON_parse(output.text)
          IN  /\ parsed.t = "arr"
              /\ Len(parsed.items) = Len(input.transcripts)
              /\ \A i \in 1..Len(input.transcripts) :
                    parsed.items[i] = TranscriptJson(input.transcripts[i])
              /\ \A i \in 1..(Len(output.text) - 2) :
                    ~(output.text[i] = "\n" /\ output.text[i + 1] = "\n"
                        /\ output.text[i + 2] = "\n")

C24_Witness ==
    /\ output.fn = "formatTranscripts"
    /\ Len(input.transcripts) = 2
    /\ input.transcripts[1] # input.transcripts[2]
    /\ Len(input.transcripts[2].snippets) = 2
    /\ JSON_parse(output.text).t = "arr"
    /\ Len(JSON_parse(output.text).items) = 2

\* C25: create gives the formatter of the name for json, text, srt and
\* webvtt and the JSON formatter when no name is given; for every other
\* name it fails with the unsupported-format error that lists the names.
C25_FactoryTotal ==
    (output.fn = "create") =>
        LET type == IF input.arg.given THEN input.arg.type ELSE "json"
        IN  IF \E i \in 1..4 : FormatterTypes[i] = type
            THEN /\ output.formatter.kind = "instance"
                 /\ \E i \in 1..4 : /\ FormatterTypes[i] = type
                                    /\ output.formatter.class = FormatterClasses[i]
            ELSE /\ output.formatter.kind = "error"
                 /\ output.formatter.class = "Error"
                 /\ output.formatter.message = "is not supported"
                 /\ output.formatter.names = FormatterTypes

(***************************************************************************)
(* Errors and snippet times of a resolution                                *)
(***************************************************************************)
\* the error classes of types.ts
ErrorKinds ==
    {"VideoUnavailable", "IpBlocked", "TranscriptsDisabled", "NoTranscriptFound",
     "NotTranslatable", "TranslationLanguageNotAvailable"}

\* C26: an invocation is rejected either by the normalizer, for a reference
\* it refuses, or with an error of one of the error classes that carries
\* the video identifier of the invocation; a NoTranscriptFound carries the
\* requested language list as well.
C26_TypedErrors ==
    \A c \in Slots :
        (calls[c].pc = "rejected") =>
            \/ calls[c].thrown.origin = "getVideoId"
            \/ /\ calls[c].thrown.kind \in ErrorKinds
               /\ calls[c].thrown.videoId = calls[c].videoId
               /\ calls[c].thrown.kind = "NoTranscriptFound" =>
                     calls[c].thrown.languages = calls[c].languages

AtLeastZero(number) == ~number.nan /\ number.tenths >= 0

\* C27: every snippet that either parser returns, and so every snippet of a
\* transcript that fetchTranscript returns, has a start and a duration that
\* are numbers not below zero.
C27_TimesNotNegative ==
    (ParsedXml \/ ParsedVtt) =>
        \A i \in 1..Len(output.snippets) :
            /\ AtLeastZero(output.snippets[i].start)
            /\ AtLeastZero(output.snippets[i].duration)

(***************************************************************************)
(* Cache lookups, the instance loop and retries, step by step              *)
(***************************************************************************)
\* the entry of a key exists and is younger than maxAge, and caching is on
Fresh(m, key) ==
    /\ cacheOptions.enabled
    /\ \E entry \in m : /\ entry[1] = key
                        /\ now - entry[2].timestamp < cacheOptions.maxAge

\* the step starts an invocation in slot 1 whose reference normalizes
Invokes == invocations' = invocations + 1 /\ Normalized(calls'[1])

\* C28: at the lookups of an invocation an entry is served exactly if
\* caching is enabled and the entry is younger than maxAge under the
\* options and the clock of that moment; the passing of time and
\* setCacheOptions remove no entry.
C28_ServedIffFresh ==
    [][/\ Invokes =>
            LET call == calls'[1]
                key == transcriptCacheKey(call.videoId, call.languages,
                                          call.preserveFormatting)
            IN  /\ Has(call, "transcriptCached") <=> Fresh(cache.transcript, key)
                /\ Has(call, "transcriptCached") => call.cachedTranscript = call.seen.data
                /\ ~Has(call, "transcriptCached") =>
                      (Has(call, "htmlCached")
                          <=> Fresh(cache.html, htmlCacheKey(call.videoId)))
       /\ (now' # now \/ cacheOptions' # cacheOptions) => cache' = cache]_vars

C28_Witness ==
    /\ calls[1].seen.exists
    /\ calls[1].seen.enabled
    /\ ~calls[1].seen.young
    /\ ~Has(calls[1], "transcriptCached")
    /\ Has(calls[1], "htmlCached") \/ Has(calls[1], "pageFetch")

GwPcs == {"gwInfo", "gwCaptions", "gwPayload"}

\* the error of the operation when the request a call waits for fails
StageError(call) ==
    IF call.pc = "gwInfo" THEN GwError("VideoUnavailable", call)
    ELSE GwError("NoTranscriptFound", call)

\* C29: the gateway operation starts at the first instance URL; from an
\* instance it goes on to the next one only after a failure there, and to
\* no instance after a success; it gives up only after the last instance
\* (or when the client is gone), with the error of the last attempt; a
\* reconfiguration of the gateway meanwhile leaves the attempt where it is.
C29_InstancesInOrder ==
    [][LET a == calls[1]
           b == calls'[1]
       IN  /\ (a.pc \notin GwPcs /\ b.pc \in GwPcs) => (b.pc = "gwInfo" /\ b.gwIdx = 1)
           /\ (a.pc \in GwPcs /\ b # a) =>
                 \/ /\ b.pc \in {"gwCaptions", "gwPayload"}
                    /\ b.gwIdx = a.gwIdx
                    /\ b.trace = a.trace
                 \/ /\ b = [a EXCEPT !.gwClient = b.gwClient]
                    /\ ~b.gwClient.current
                 \/ /\ b.pc = "resolved"
                    /\ b.gwIdx = a.gwIdx
                    /\ b.trace = Append(a.trace, "gatewayOk")
                 \/ /\ b.pc = "gwInfo"
                    /\ b.gwIdx = a.gwIdx + 1
                    /\ b.gwUrls = a.gwUrls
                    /\ b.lastError = StageError(a)
                    /\ b.trace = Append(a.trace, "gateway")
                 \/ /\ Len(b.trace) > Len(a.trace)
                    /\ b.trace[Len(a.trace) + 1] = "gatewayFailed"
                    /\ b.invidiousError = b.lastError
                    /\ IF a.gwIdx = Len(a.gwUrls) THEN b.lastError = StageError(a)
                       ELSE invidiousClient.isNull /\ b.lastError.kind = "TypeError"]_vars

C29_Witness ==
    /\ calls[1].pc = "resolved"
    /\ calls[1].gwIdx = 2
    /\ Has(calls[1], "gatewayOk")
    /\ calls[1].lastError.kind = "VideoUnavailable"

\* where an invocation can be after the answer to the request it waits for
AfterAnswer(pc) ==
    IF pc = "html" THEN {"payload", "resolved", "rejected"} ELSE {"resolved", "rejected"}

\* C30: an invocation requests the page at most once and the caption
\* payload at most once; the answer to a request of the primary path takes
\* it to the next step, to its rejection or, once, to the gateway fallback,
\* and a fallback never leads back to the primary path.
C30_NoRetry ==
    [][LET a == calls[1]
           b == calls'[1]
       IN  /\ Count(b.trace, "pageFetch") <= 1
           /\ Count(b.trace, "payloadFetch") <= 1
           /\ Count(b.trace, "gatewayFailed") <= 1
           /\ (a.pc \in {"html", "metaHtml", "payload"} /\ b # a) =>
                 /\ \/ b.pc \in AfterAnswer(a.pc)
                    \/ b.pc = "gwInfo" /\ b.stage = "fallback" /\ ~Has(a, "gateway")
                 /\ b.pc = "rejected" => b.thrown.origin = "primary"
           /\ (a.pc \in GwPcs /\ a.stage = "fallback" /\ b # a) =>
                 b.pc \in GwPcs \cup {"resolved", "rejected"}]_vars

C30_Witness ==
    /\ calls[1].pc = "rejected"
    /\ Count(calls[1].trace, "pageFetch") = 1
    /\ Has(calls[1], "payloadFetch")
    /\ calls[1].thrown.kind = "VideoUnavailable"

(***************************************************************************)
(* The catalog as a function of the track list                             *)
(***************************************************************************)
\* the mapping of the catalog that holds the tracks of this provenance
MappingOf(list, generated) ==
    IF generated THEN list.generatedTranscripts ELSE list.manualTranscripts

\* the positions of the list whose track has this provenance and this code
TracksOf(tracks, generated, code) ==
    {t \in 1..Len(tracks) :
        (tracks[t].kind = "asr") = generated /\ tracks[t].languageCode = code}

Greatest(S) == CHOOSE i \in S : \A j \in S : j <= i

\* C31: build places each track in exactly one mapping, the generated one
\* if its kind is 'asr' and the manual one otherwise, under its language
\* code; a mapping has one entry per code, that of the latest track of its
\* provenance with the code; the two mappings are filled independently.
C31_OneMappingLastWins ==
    Selected =>
        \A generated \in BOOLEAN :
            LET mapping == MappingOf(output.list, generated)
            IN  /\ \A code \in Langs :
                      LET from == TracksOf(input.captionTracks, generated, code)
                      IN  /\ MapHas(mapping, code) <=> from # {}
                          /\ Cardinality({p \in mapping : p[1] = code}) <= 1
                          /\ from # {} =>
                                MapGet(mapping, code) =
                                    TranscriptEntry(SomeVideo,
                                                    input.captionTracks[Greatest(from)])
                /\ MapKeys(mapping) \subseteq Langs
                /\ \A p \in mapping :
                      p[2].isGenerated = generated /\ p[2].languageCode = p[1]

\* two manual "en" tracks: the manual mapping keeps the second, the
\* generated mapping stays empty
C31_Witness ==
    /\ Selected
    /\ TracksOf(input.captionTracks, FALSE, "en") = {1, 2}
    /\ MapGet(output.list.manualTranscripts, "en").url = 2
    /\ output.list.generatedTranscripts = EmptyMap

(***************************************************************************)
(* SpecConcurrent: two single-video resolutions in flight at the same time *)
(* on an instance whose alternate gateway is configured at construction.   *)
(***************************************************************************)
ConcurrentSlots == {1, 2}

NextConcurrent ==
    \/ \E c \in ConcurrentSlots, l \in CallLangs : FetchTranscript(c, V1, l, FALSE)
    \/ \E c \in ConcurrentSlots, o \in HtmlOutcomes : HtmlDone(c, o)
    \/ \E c \in ConcurrentSlots, o \in HtmlOutcomes : MetaHtmlDone(c, o)
    \/ \E c \in ConcurrentSlots, o \in PayloadOutcomes : PayloadDone(c, o)
    \/ \E c \in ConcurrentSlots, o \in GwInfoOutcomes : GwInfoDone(c, o)
    \/ \E c \in ConcurrentSlots, o \in GwCaptionsOutcomes : GwCaptionsDone(c, o)
    \/ \E c \in ConcurrentSlots, o \in GwPayloadOutcomes : GwPayloadDone(c, o)

SpecConcurrent == InitGateway /\ [][NextConcurrent]_vars

\* C32: every request an instance attempt issues (video info, captions
\* list, caption payload) goes to the instance URL of the attempt, whatever
\* other resolutions in flight do to the shared client.
C32_AttemptKeepsInstance ==
    \A c \in Slots :
        calls[c].pc \in GwPcs => calls[c].gwTarget = calls[c].gwUrls[calls[c].gwIdx]

(***************************************************************************)
(* Successes of a group under stopOnError                                  *)
(***************************************************************************)
\* C33: with stopOnError = true, when fetchTranscripts has returned, every
\* resolution of a started group that resolved has its identifier in
\* results, wherever a failed member of its group stands.
C33_SuccessesKept ==
    (batch.pc = "returned" /\ batch.stopOnError) =>
        \A p \in batch.started :
            calls[p].pc = "resolved" => MapHas(batch.results, IdOf(p))

====
